---------------------------- MODULE Spec2Model ----------------------------
(***************************************************************************)
(* EchoTalk presence watcher: the poll loop of the presence worker         *)
(* (pollActive, start) and the display-name resolver                       *)
(* (createNameResolver: cache, debounced flush, resolveDisplayName).       *)
(*                                                                         *)
(* Strings are TLA+ strings; TLC evaluates Len, SubSeq and \o on them, so  *)
(* the string functions of the source (basename, toLowerCase, trim, slice, *)
(* the regular expressions, decodeURI) are computed character by character.*)
(***************************************************************************)
EXTENDS Integers, Sequences, FiniteSets, TLC

(***************************************************************************)
(* Bounds of the model.                                                    *)
(***************************************************************************)
\* number of firings of the poll timer in a run
MaxTicks == 7
\* pollActive invocations that may be awaiting at the same time
MaxInFlight == 2
\* direct calls of resolveDisplayName in a run of SpecResolver
MaxCalls == 2

(***************************************************************************)
(* null and undefined.  Where the source holds a string or null (a name, a *)
(* map entry, a payload field) they are two strings no input of the model  *)
(* contains; where it holds an object or null (the session, a pending      *)
(* call) null is the record None.                                          *)
(***************************************************************************)
Null == "<null>"
Undefined == "<undefined>"
None == [none |-> TRUE]
\* what a parser gives for a text it refuses
Unparseable == [unparseable |-> TRUE]

\* JavaScript truthiness of a string, null or undefined
Truthy(v) == v # Null /\ v # Undefined /\ v # ""

(***************************************************************************)
(* String functions.                                                       *)
(***************************************************************************)
CharAt(s, i) == SubSeq(s, i, i)

UpperLetters == "ABCDEFGHIJKLMNOPQRSTUVWXYZ"
LowerLetters == "abcdefghijklmnopqrstuvwxyz"

LowerChar(c) ==
  IF \E i \in 1..26 : CharAt(UpperLetters, i) = c
  THEN CharAt(LowerLetters, CHOOSE i \in 1..26 : CharAt(UpperLetters, i) = c)
  ELSE c

UpperChar(c) ==
  IF \E i \in 1..26 : CharAt(LowerLetters, i) = c
  THEN CharAt(UpperLetters, CHOOSE i \in 1..26 : CharAt(LowerLetters, i) = c)
  ELSE c

RECURSIVE toLowerCase(_)
toLowerCase(s) ==
  IF s = "" THEN ""
  ELSE IF Len(s) = 1 THEN LowerChar(s)
  ELSE toLowerCase(SubSeq(s, 1, Len(s) \div 2))
         \o toLowerCase(SubSeq(s, Len(s) \div 2 + 1, Len(s)))

\* white space as String.prototype.trim and the \s of a regular expression see it
IsSpace(c) == c \in {" ", "\t", "\n", "\r"}

RECURSIVE trimStart(_)
trimStart(s) ==
  IF s # "" /\ IsSpace(CharAt(s, 1)) THEN trimStart(SubSeq(s, 2, Len(s))) ELSE s

RECURSIVE trimEnd(_)
trimEnd(s) ==
  IF s # "" /\ IsSpace(CharAt(s, Len(s))) THEN trimEnd(SubSeq(s, 1, Len(s) - 1)) ELSE s

trim(s) == trimEnd(trimStart(s))

\* s.slice(0, n)
slice0(s, n) == IF Len(s) <= n THEN s ELSE SubSeq(s, 1, n)

\* the literal lit stands in s at position i
MatchAt(s, i, lit) ==
  /\ i >= 1
  /\ i + Len(lit) - 1 <= Len(s)
  /\ SubSeq(s, i, i + Len(lit) - 1) = lit

includes(s, lit) == \E i \in 1..(Len(s) + 1) : MatchAt(s, i, lit)

startsWith(s, lit) == MatchAt(s, 1, lit)

endsWith(s, lit) == Len(s) >= Len(lit) /\ MatchAt(s, Len(s) - Len(lit) + 1, lit)

\* the first position at or after i that holds no white space
RECURSIVE SkipSpace(_, _)
SkipSpace(s, i) ==
  IF i <= Len(s) /\ IsSpace(CharAt(s, i)) THEN SkipSpace(s, i + 1) ELSE i

\* the regular expression  a\s*b  matches somewhere in s
MatchSp(s, a, b) ==
  \E i \in 1..Len(s) : MatchAt(s, i, a) /\ MatchAt(s, SkipSpace(s, i + Len(a)), b)

IsSep(c) == c = "/" \/ c = "\\"

\* s.replace(/\\/g, '/')
RECURSIVE slashes(_)
slashes(s) ==
  IF s = "" THEN ""
  ELSE (IF CharAt(s, 1) = "\\" THEN "/" ELSE CharAt(s, 1)) \o slashes(SubSeq(s, 2, Len(s)))

(***************************************************************************)
(* path.basename of node:path, of the platform the process runs on: win32  *)
(* splits at / and \ and skips a drive prefix, posix splits at / only.     *)
(* Trailing separators are dropped first.                                  *)
(***************************************************************************)
Platforms == {"win32", "darwin", "linux"}

PathSep(pf, c) == IF pf = "win32" THEN IsSep(c) ELSE c = "/"

RECURSIVE dropTrailingSeps(_, _)
dropTrailingSeps(pf, p) ==
  IF p # "" /\ PathSep(pf, CharAt(p, Len(p)))
  THEN dropTrailingSeps(pf, SubSeq(p, 1, Len(p) - 1))
  ELSE p

IsLetter(c) ==
  \E i \in 1..26 : CharAt(UpperLetters, i) = c \/ CharAt(LowerLetters, i) = c

dropDrive(pf, p) ==
  IF pf = "win32" /\ Len(p) >= 2 /\ IsLetter(CharAt(p, 1)) /\ CharAt(p, 2) = ":"
  THEN SubSeq(p, 3, Len(p))
  ELSE p

basename(pf, p) ==
  LET q == dropTrailingSeps(pf, dropDrive(pf, p))
      cuts == {i \in 1..Len(q) : PathSep(pf, CharAt(q, i))}
      from == IF cuts = {} THEN 1 ELSE (CHOOSE i \in cuts : \A j \in cuts : j <= i) + 1
  IN SubSeq(q, from, Len(q))

(***************************************************************************)
(* Finite maps (JavaScript objects and Maps with string keys).             *)
(***************************************************************************)
EmptyMap == [k \in {} |-> ""]

\* obj[k], undefined when the key is absent
Get(m, k) == IF k \in DOMAIN m THEN m[k] ELSE Undefined

\* obj[k] = v
Put(m, k, v) == [x \in (DOMAIN m) \cup {k} |-> IF x = k THEN v ELSE m[x]]

(***************************************************************************)
(* The watcher's constants and tables.                                     *)
(***************************************************************************)
ACTIVE_STALE_MS == 5000
HEARTBEAT_MS == 5000
POLL_ACTIVE_MS == 1000

LAUNCHER_BASES ==
  {"steam.exe", "epicgameslauncher.exe", "battle.net.exe", "origin.exe", "ea desktop.exe"}

NON_GAME_BASES ==
  {"chrome.exe", "msedge.exe", "firefox.exe", "opera.exe", "opera_gx.exe", "brave.exe",
   "vivaldi.exe", "iexplore.exe", "safari.exe",
   "discord.exe", "telegram.exe", "slack.exe", "teams.exe", "skype.exe",
   "outlook.exe", "winword.exe", "excel.exe", "powerpnt.exe", "thunderbird.exe",
   "code.exe", "goland64.exe", "idea64.exe", "pycharm64.exe", "webstorm64.exe",
   "clion64.exe", "studio64.exe", "devenv.exe", "sublime_text.exe", "notepad++.exe"}

KNOWN_EXE_MAP ==
  [k \in {"cs2.exe", "csgo.exe", "dota2.exe", "eldenring.exe", "witcher3.exe", "steam.exe",
          "epicgameslauncher.exe", "battle.net.exe", "code.exe", "discord.exe",
          "electron", "terminal"} |->
     CASE k = "cs2.exe" -> "Counter-Strike 2"
       [] k = "csgo.exe" -> "Counter-Strike: Global Offensive"
       [] k = "dota2.exe" -> "Dota 2"
       [] k = "eldenring.exe" -> "ELDEN RING"
       [] k = "witcher3.exe" -> "The Witcher 3"
       [] k = "steam.exe" -> "Steam"
       [] k = "epicgameslauncher.exe" -> "Epic Games Launcher"
       [] k = "battle.net.exe" -> "Battle.net"
       [] k = "code.exe" -> "Visual Studio Code"
       [] k = "discord.exe" -> "Discord"
       [] k = "electron" -> "Electron App"
       [] k = "terminal" -> "Terminal"]

KNOWN_GEEK_SET ==
  {"code.exe", "goland64.exe", "idea64.exe", "pycharm64.exe", "webstorm64.exe", "clion64.exe",
   "studio64.exe", "devenv.exe", "sublime_text.exe", "notepad++.exe",
   "powershell.exe", "wt.exe", "windowsterminal.exe", "conhost.exe", "cmd.exe", "wsl.exe",
   "git.exe", "gitkraken.exe", "sourceTree.exe", "docker desktop.exe", "docker.exe",
   "kubectl.exe", "postman.exe", "insomnia.exe", "dbeaver.exe", "tableplus.exe",
   "heidisql.exe", "pgadmin4.exe", "obsidian.exe", "figma.exe", "unity.exe",
   "ue4editor.exe", "unrealeditor.exe", "blender.exe",
   "discord.exe", "telegram.exe", "slack.exe"}

(***************************************************************************)
(* GAME_PATH_HINTS, one definition per regular expression, each applied to *)
(* the lowercased path.  "." does not match a line break.                  *)
(***************************************************************************)
NoBreak(s, i, j) == \A k \in i..j : CharAt(s, k) \notin {"\n", "\r"}

\* /steamapps[\/\\]common[\/\\]/
Hint1(s) ==
  \E i \in 1..Len(s) :
    /\ MatchAt(s, i, "steamapps")
    /\ i + 16 <= Len(s)
    /\ IsSep(CharAt(s, i + 9))
    /\ MatchAt(s, i + 10, "common")
    /\ IsSep(CharAt(s, i + 16))

\* /\\steam\\.*\\common\\*/
Hint2(s) ==
  \E i \in 1..Len(s) :
    /\ MatchAt(s, i, "\\steam\\")
    /\ \E j \in (i + 7)..Len(s) :
         MatchAt(s, j, "\\common") /\ NoBreak(s, i + 7, j - 1)

\* /epic\s*games/
Hint3(s) == MatchSp(s, "epic", "games")

\* /gog\s*galaxy[\/\\]games/
Hint4(s) ==
  \E i \in 1..Len(s) :
    LET j == SkipSpace(s, i + 3)
    IN /\ MatchAt(s, i, "gog")
       /\ MatchAt(s, j, "galaxy")
       /\ j + 6 <= Len(s)
       /\ IsSep(CharAt(s, j + 6))
       /\ MatchAt(s, j + 7, "games")

\* /ubisoft\s*(connect|game\s*launcher)/
Hint5(s) ==
  \E i \in 1..Len(s) :
    LET j == SkipSpace(s, i + 7)
    IN /\ MatchAt(s, i, "ubisoft")
       /\ \/ MatchAt(s, j, "connect")
          \/ MatchAt(s, j, "game") /\ MatchAt(s, SkipSpace(s, j + 4), "launcher")

\* /battle\.net/
Hint6(s) == includes(s, "battle.net")

\* /origin[\/\\]|ea\s*(games|desktop)/
Hint7(s) ==
  \/ includes(s, "origin/")
  \/ includes(s, "origin\\")
  \/ MatchSp(s, "ea", "games")
  \/ MatchSp(s, "ea", "desktop")

\* /riot\s*games/
Hint8(s) == MatchSp(s, "riot", "games")

\* /rockstar\s*games/
Hint9(s) == MatchSp(s, "rockstar", "games")

\* /xboxgames|microsoft\\xbox/
Hint10(s) == includes(s, "xboxgames") \/ includes(s, "microsoft\\xbox")

\* /games[\/\\](?=.*\.(exe|app))/
Hint11(s) ==
  \E i \in 1..Len(s) :
    /\ MatchAt(s, i, "games")
    /\ i + 5 <= Len(s)
    /\ IsSep(CharAt(s, i + 5))
    /\ \E j \in (i + 6)..Len(s) :
         /\ MatchAt(s, j, ".exe") \/ MatchAt(s, j, ".app")
         /\ NoBreak(s, i + 6, j - 1)

hasGameHint(p) ==
  LET lp == toLowerCase(p)
  IN \/ Hint1(lp) \/ Hint2(lp) \/ Hint3(lp) \/ Hint4(lp) \/ Hint5(lp) \/ Hint6(lp)
     \/ Hint7(lp) \/ Hint8(lp) \/ Hint9(lp) \/ Hint10(lp) \/ Hint11(lp)

\* the watcher's exeBase: basename, lowercased and trimmed
exeBase(pf, fpOrName) ==
  IF fpOrName = "" THEN "" ELSE trim(toLowerCase(basename(pf, fpOrName)))

\* confidence in tenths
classify(base, fullPath) ==
  LET b == toLowerCase(base)
  IN IF b \in DOMAIN KNOWN_EXE_MAP THEN [category |-> "game", confidence |-> 9]
     ELSE IF b \in KNOWN_GEEK_SET THEN [category |-> "geek", confidence |-> 8]
     ELSE IF hasGameHint(fullPath) THEN [category |-> "game", confidence |-> 6]
     ELSE [category |-> "other", confidence |-> 3]

(***************************************************************************)
(* decodeURI.  A result is [ok, val]; ok = FALSE is the URIError thrown on *)
(* a malformed escape.  Escapes of the reserved characters stay as written.*)
(* A decoded control character other than tab, line feed and carriage      *)
(* return, a grave accent and a decoded code point outside ASCII stand as   *)
(* OtherChar.                                                              *)
(***************************************************************************)
HexDigits == "0123456789abcdef"
\* the characters of codes 32..95 and 97..126
Printable ==
  " !\"#$%&'()*+,-./0123456789:;<=>?@ABCDEFGHIJKLMNOPQRSTUVWXYZ[\\]^_"
PrintableHigh == "abcdefghijklmnopqrstuvwxyz{|}~"
UriReserved == {";", "/", "?", ":", "@", "&", "=", "+", "$", ",", "#"}
OtherChar == "?"

IsHex(c) == \E i \in 1..16 : CharAt(HexDigits, i) = LowerChar(c)
HexVal(c) == (CHOOSE i \in 1..16 : CharAt(HexDigits, i) = LowerChar(c)) - 1

\* s holds an escape %XX at position i
IsEscape(s, i) ==
  /\ i + 2 <= Len(s)
  /\ CharAt(s, i) = "%"
  /\ IsHex(CharAt(s, i + 1))
  /\ IsHex(CharAt(s, i + 2))

EscapeByte(s, i) == 16 * HexVal(CharAt(s, i + 1)) + HexVal(CharAt(s, i + 2))

AsciiChar(b) ==
  IF b >= 32 /\ b <= 95 THEN CharAt(Printable, b - 31)
  ELSE IF b >= 97 /\ b <= 126 THEN CharAt(PrintableHigh, b - 96)
  ELSE IF b = 9 THEN "\t"
  ELSE IF b = 10 THEN "\n"
  ELSE IF b = 13 THEN "\r"
  ELSE OtherChar

\* continuation bytes that follow a UTF-8 lead byte; -1: not a lead byte
Continuations(b) ==
  IF b >= 194 /\ b <= 223 THEN 1
  ELSE IF b >= 224 /\ b <= 239 THEN 2
  ELSE IF b >= 240 /\ b <= 244 THEN 3
  ELSE -1

RECURSIVE decodeURI(_)
decodeURI(s) ==
  IF s = "" THEN [ok |-> TRUE, val |-> ""]
  ELSE IF CharAt(s, 1) # "%"
  THEN LET r == decodeURI(SubSeq(s, 2, Len(s)))
       IN [ok |-> r.ok, val |-> CharAt(s, 1) \o r.val]
  ELSE IF ~IsEscape(s, 1) THEN [ok |-> FALSE, val |-> ""]
  ELSE LET b == EscapeByte(s, 1)
           n == Continuations(b)
       IN IF b < 128
          THEN LET r == decodeURI(SubSeq(s, 4, Len(s)))
                   c == AsciiChar(b)
               IN [ok |-> r.ok,
                   val |-> (IF c \in UriReserved THEN SubSeq(s, 1, 3) ELSE c) \o r.val]
          ELSE IF n < 0 THEN [ok |-> FALSE, val |-> ""]
          ELSE IF \A k \in 1..n :
                    /\ IsEscape(s, 1 + 3 * k)
                    /\ EscapeByte(s, 1 + 3 * k) >= 128
                    /\ EscapeByte(s, 1 + 3 * k) <= 191
          THEN LET r == decodeURI(SubSeq(s, 4 + 3 * n, Len(s)))
               IN [ok |-> r.ok, val |-> OtherChar \o r.val]
          ELSE [ok |-> FALSE, val |-> ""]

\* s.replace(/[_-]+/g, ' ')
RECURSIVE deslug(_)
deslug(s) ==
  IF s = "" THEN ""
  ELSE IF CharAt(s, 1) \in {"_", "-"}
  THEN IF Len(s) >= 2 /\ CharAt(s, 2) \in {"_", "-"}
       THEN deslug(SubSeq(s, 2, Len(s)))
       ELSE " " \o deslug(SubSeq(s, 2, Len(s)))
  ELSE CharAt(s, 1) \o deslug(SubSeq(s, 2, Len(s)))

\* the maximal run of characters other than "/" that starts at position i
RECURSIVE segmentAt(_, _)
segmentAt(s, i) ==
  IF i > Len(s) \/ CharAt(s, i) = "/" THEN "" ELSE CharAt(s, i) \o segmentAt(s, i + 1)

\* s.match(/steamapps\/common\/([^/]+)/)?.[1], Null when there is no match
steamFolder(s) ==
  LET at == {i \in 1..Len(s) :
               MatchAt(s, i, "steamapps/common/") /\ segmentAt(s, i + 17) # ""}
  IN IF at = {} THEN Null
     ELSE segmentAt(s, (CHOOSE i \in at : \A j \in at : i <= j) + 17)

\* ex.replace(/\.exe$/, '')
stripExe(s) == IF endsWith(s, ".exe") THEN SubSeq(s, 1, Len(s) - 4) ELSE s

\* fallback.charAt(0).toUpperCase() + fallback.slice(1)
capitalize(s) == IF s = "" THEN "" ELSE UpperChar(CharAt(s, 1)) \o SubSeq(s, 2, Len(s))

(***************************************************************************)
(* The resolver (createNameResolver).  knownMap is KNOWN_EXE_MAP, platform *)
(* is process.platform.                                                    *)
(***************************************************************************)
knownMap == KNOWN_EXE_MAP

\* trimmed title length the window title tier asks for, and its cut
TITLE_MIN == 3
TITLE_MAX == 80
\* length the win32 file description must have
FILEDESC_MIN == 3

\* the resolver's exeBase: basename lowercased, not trimmed
exeBaseR(pf, fp) == IF fp = "" THEN "" ELSE toLowerCase(basename(pf, fp))

\* lower = s => (s || '').toLowerCase()
lower(s) == IF Truthy(s) THEN toLowerCase(s) ELSE ""

(***************************************************************************)
(* The OS metadata probes.  What the operating system answers is the       *)
(* argument env:                                                           *)
(*   win32   [kind |-> "close", out |-> stdout]  or  [kind |-> "error"]    *)
(*   darwin  [kind |-> "plist", display |-> v, name |-> v], v a string or  *)
(*           Undefined, or [kind |-> "error"] (unreadable or malformed)    *)
(*   linux   [kind |-> "dirs", dirs |-> a sequence, one element for each   *)
(*           candidate directory: [ok, files], ok = FALSE when readdir     *)
(*           fails, files a sequence of [name, text], text Null when the   *)
(*           file is unreadable]                                           *)
(***************************************************************************)
fileDescriptionWindows(exePath, env) ==
  IF env.kind = "close"
  THEN (IF trim(env.out) # "" THEN trim(env.out) ELSE Null)
  ELSE Null

\* path.basename(appPath, '.app')
basenameNoApp(pf, appPath) ==
  LET b == basename(pf, appPath)
  IN IF endsWith(b, ".app") /\ b # ".app" THEN SubSeq(b, 1, Len(b) - 4) ELSE b

macBundleName(pf, appPath, env) ==
  IF env.kind = "plist"
  THEN IF Truthy(env.display) THEN env.display
       ELSE IF Truthy(env.name) THEN env.name
       ELSE basenameNoApp(pf, appPath)
  ELSE Null

\* the text of s up to its first line feed
RECURSIVE firstLine(_)
firstLine(s) ==
  IF s = "" \/ CharAt(s, 1) = "\n" THEN "" ELSE CharAt(s, 1) \o firstLine(SubSeq(s, 2, Len(s)))

\* t.split('\n').find(l => l.startsWith('Name=')), Undefined when there is none
RECURSIVE nameLineOf(_)
nameLineOf(t) ==
  LET l == firstLine(t)
  IN IF startsWith(l, "Name=") THEN l
     ELSE IF Len(l) >= Len(t) THEN Undefined
     ELSE nameLineOf(SubSeq(t, Len(l) + 2, Len(t)))

\* the name a .desktop file gives for the executable; Undefined: the loop goes on
desktopFileName(base, f) ==
  IF ~endsWith(f.name, ".desktop") THEN Undefined
  ELSE IF f.text = Null THEN Undefined
  ELSE IF ~includes(f.text, "Name=") \/ ~includes(f.text, "Exec=") THEN Undefined
  ELSE IF ~includes(toLowerCase(f.text), toLowerCase(base)) THEN Undefined
  ELSE IF nameLineOf(f.text) = Undefined THEN Undefined
  ELSE trim(SubSeq(nameLineOf(f.text), 6, Len(nameLineOf(f.text))))

RECURSIVE firstDesktopName(_, _)
firstDesktopName(base, files) ==
  IF files = <<>> THEN Undefined
  ELSE IF desktopFileName(base, Head(files)) # Undefined
  THEN desktopFileName(base, Head(files))
  ELSE firstDesktopName(base, Tail(files))

RECURSIVE linuxDesktopDirs(_, _)
linuxDesktopDirs(base, dirs) ==
  IF dirs = <<>> THEN Null
  ELSE IF Head(dirs).ok /\ firstDesktopName(base, Head(dirs).files) # Undefined
  THEN firstDesktopName(base, Head(dirs).files)
  ELSE linuxDesktopDirs(base, Tail(dirs))

linuxDesktopName(pf, exePath, env) ==
  IF env.kind = "dirs" THEN linuxDesktopDirs(basename(pf, exePath), env.dirs) ELSE Null

\* resolveDisplayName awaits a probe for this path on this platform
probes(pf, exePath) ==
  \/ pf = "win32" /\ exePath # ""
  \/ pf = "darwin" /\ exePath # "" /\ endsWith(exePath, ".app")
  \/ pf = "linux" /\ exePath # ""

\* the value the awaited probe completes with
probeValue(pf, exePath, env) ==
  IF pf = "win32" THEN fileDescriptionWindows(exePath, env)
  ELSE IF pf = "darwin" THEN macBundleName(pf, exePath, env)
  ELSE linuxDesktopName(pf, exePath, env)

(***************************************************************************)
(* resolveDisplayName.  The tiers before the probe run when the function   *)
(* is called; the tiers from the probe on run when the awaited probe has   *)
(* completed (at once, in the same turn of the event loop, when the        *)
(* platform has no probe for the path).  in = [exePath, processName,       *)
(* windowTitle].                                                           *)
(***************************************************************************)
\* const ex = exeBase(exePath) || lower(processName)
resolveEx(pf, in) ==
  IF exeBaseR(pf, in.exePath) # "" THEN exeBaseR(pf, in.exePath)
  ELSE lower(in.processName)

\* the name of tier 4 from the probe's value, Null when the tier gives none
metaName(pf, in, meta) ==
  IF ~probes(pf, in.exePath) THEN Null
  ELSE IF pf = "win32"
  THEN (IF Truthy(meta) /\ Len(meta) >= FILEDESC_MIN THEN meta ELSE Null)
  ELSE (IF Truthy(meta) THEN meta ELSE Null)

\* tiers 4-7.  threw: an exception leaves resolveDisplayName; key: the first
\* argument of putCache
tiersFromProbe(pf, in, meta) ==
  LET ex == resolveEx(pf, in)
      key == IF in.exePath # "" THEN in.exePath ELSE ex
      m == IF in.exePath # "" THEN steamFolder(slashes(lower(in.exePath))) ELSE Null
      fallback == stripExe(ex)
  IN IF metaName(pf, in, meta) # Null
     THEN [tier |-> "meta", threw |-> FALSE, name |-> metaName(pf, in, meta),
           key |-> in.exePath]
     ELSE IF in.windowTitle # "" /\ Len(trim(in.windowTitle)) >= TITLE_MIN
     THEN [tier |-> "title", threw |-> FALSE,
           name |-> slice0(trim(in.windowTitle), TITLE_MAX), key |-> key]
     ELSE IF Truthy(m)
     THEN IF decodeURI(m).ok
          THEN [tier |-> "path", threw |-> FALSE, name |-> deslug(decodeURI(m).val),
                key |-> in.exePath]
          ELSE [tier |-> "path", threw |-> TRUE, name |-> Null, key |-> in.exePath]
     ELSE [tier |-> "fallback", threw |-> FALSE,
           name |-> IF fallback # "" THEN capitalize(fallback) ELSE "Unknown App",
           key |-> key]

\* the keys putCache derives from its first argument
cacheKeys(pf, exePath) ==
  [ex |-> exeBaseR(pf, exePath),
   pLower |-> IF exePath # "" THEN lower(exePath) ELSE Null]

(***************************************************************************)
(* The watcher's locals.                                                   *)
(***************************************************************************)
\* [exePath, title, procName, aw.owner?.processId ?? ''].join('|')
signatureOf(exePath, title, procName, pid) ==
  exePath \o "|" \o title \o "|" \o procName \o "|" \o ToString(pid)

\* the locals of pollActive for the window aw = [path, name, title, pid]
localsOf(pf, aw) ==
  LET exePath == IF aw.path # "" THEN aw.path ELSE aw.name
      base == exeBase(pf, IF exePath # "" THEN exePath ELSE aw.name)
  IN [exePath |-> exePath, procName |-> aw.name, title |-> aw.title, pid |-> aw.pid,
      base |-> base, cls |-> classify(base, exePath), hint |-> hasGameHint(exePath),
      signature |-> signatureOf(exePath, aw.title, aw.name, aw.pid)]

inputOf(l) == [exePath |-> l.exePath, processName |-> l.procName, windowTitle |-> l.title]

(***************************************************************************)
(* The inputs of the model: what the window probe may answer (no window,   *)
(* or one of these windows {owner.path, owner.name, title,                 *)
(* owner.processId}), what the metadata probe may answer, the arguments of *)
(* a direct call of resolveDisplayName, the cache files and the library    *)
(* indexes a start may find.                                               *)
(***************************************************************************)
Win(path, name, title, pid) == [path |-> path, name |-> name, title |-> title, pid |-> pid]

\* the windows of the worker's ticks: a game under two titles, a game in a
\* folder whose name is no URI text, a launcher, a launcher under a game-library path, an editor
\* of both KNOWN_GEEK_SET and NON_GAME_BASES, an editor of neither
WindowsWin32 ==
  { Win("D:\\steamapps\\common\\Foo\\foo.exe", "foo", "Foo - Act 1", 11),
    Win("D:\\steamapps\\common\\Foo\\foo.exe", "foo", "Foo - Act 2", 11),
    Win("D:\\steamapps\\common\\100%\\g.exe", "g", "", 12),
    Win("C:\\Steam\\steam.exe", "steam", "Steam", 13),
    Win("C:\\Epic Games\\Launcher\\EpicGamesLauncher.exe", "EpicGamesLauncher", "Epic", 14),
    Win("C:\\VS Code\\Code.exe", "Code", "main.js", 15),
    Win("C:\\Windows\\notepad.exe", "notepad", "Untitled", 16) }

Windows(pf) == IF pf = "win32" THEN WindowsWin32 ELSE {}

ProbeEnvsWin32 ==
  << [kind |-> "error"],
     [kind |-> "close", out |-> ""],
     [kind |-> "close", out |-> "Foo The Game\r\n"] >>

ProbeEnvsDarwin ==
  << [kind |-> "error"],
     [kind |-> "plist", display |-> Undefined, name |-> "Foo The Game"] >>

ProbeEnvsLinux ==
  << [kind |-> "error"],
     [kind |-> "dirs",
      dirs |-> << [ok |-> FALSE, files |-> <<>>],
                  [ok |-> TRUE,
                   files |-> << [name |-> "readme.txt", text |-> "Name=No\nExec=foo.exe\n"],
                                [name |-> "foo.desktop",
                                 text |-> "[Desktop Entry]\nName=Foo The Game\nExec=foo.exe\n"] >>],
                  [ok |-> TRUE, files |-> <<>>] >>] >>

ProbeEnvs(pf) ==
  IF pf = "win32" THEN ProbeEnvsWin32
  ELSE IF pf = "darwin" THEN ProbeEnvsDarwin
  ELSE ProbeEnvsLinux

In(exePath, processName, windowTitle) ==
  [exePath |-> exePath, processName |-> processName, windowTitle |-> windowTitle]

\* a title of 84 characters
LongTitle ==
  "  Bar: The Longest Subtitle Ever Printed On A Window, Director's Cut - Chapter 12  "

SamplePath(pf) ==
  IF pf = "win32" THEN "D:\\Lib\\steamapps\\common\\SampleGame\\Sample.exe"
  ELSE "/lib/steamapps/common/SampleGame/Sample.exe"

DirectInputsWin32 ==
  { In("", "", ""),
    In("", " ", ""),
    In("", "Terminal", "zsh"),
    In("C:\\Games\\cs2\\cs2.exe", "cs2", "Counter-Strike 2"),
    In(SamplePath("win32"), "Sample", "Sample - Menu"),
    In("D:\\steamapps\\common\\Foo\\foo.exe", "foo", "Foo - Act 1"),
    In("D:\\steamapps\\common\\Foo_Bar--2\\fb.exe", "fb", " ab "),
    In("D:\\steamapps\\common\\_\\h.exe", "h", ""),
    In("D:\\steamapps\\common\\100%\\g.exe", "g", ""),
    In("C:\\Games\\Bar\\bar.exe", "bar", LongTitle),
    In("C:\\Tools\\thing.exe", "thing", "") }

DirectInputsPosix ==
  { In("", "", ""),
    In("", " ", ""),
    In("", "Terminal", "zsh"),
    In("/games/cs2/cs2.exe", "cs2", "Counter-Strike 2"),
    In(SamplePath("linux"), "Sample", "Sample - Menu"),
    In("/opt/steamapps/common/Foo/foo.exe", "foo", "Foo - Act 1"),
    In("/opt/steamapps/common/Foo_Bar--2/fb.exe", "fb", " ab "),
    In("/opt/steamapps/common/_/h.exe", "h", ""),
    In("/opt/steamapps/common/100%/g.exe", "g", ""),
    In("/games/Bar/bar.exe", "bar", LongTitle),
    In("/Applications/Foo.app", "Foo", ""),
    In("/opt/tools/thing", "thing", "") }

DirectInputs(pf) == IF pf = "win32" THEN DirectInputsWin32 ELSE DirectInputsPosix

\* presence-cache.json as a start may find it: None (no file, or not JSON) or
\* a document; a document need not hold every field
DiskDocs(pf) ==
  { None,
    [byExe |-> ("cs2.exe" :> "Old CS"),
     byPath |-> (lower(SamplePath(pf)) :> "Cached Sample"),
     updatedAt |-> 0],
    [byExe |-> ("foo.exe" :> "Foo Cached")] }

\* the library index warmup may have built
Indexes(pf) == { EmptyMap, lower(SamplePath(pf)) :> "Sample Game" }

(***************************************************************************)
(* The string computations above, tabulated over the inputs of the model   *)
(* (each table entry is the operator applied to the entry's key).          *)
(***************************************************************************)
AllInputs(pf) == {inputOf(localsOf(pf, aw)) : aw \in Windows(pf)} \cup DirectInputs(pf)

InputSet == UNION {{<<pf, in>> : in \in AllInputs(pf)} : pf \in Platforms}

LocalsTable ==
  [k \in UNION {{<<pf, aw>> : aw \in Windows(pf)} : pf \in Platforms} |->
     localsOf(k[1], k[2])]

ExeBaseTable == [k \in {<<i[1], i[2].exePath>> : i \in InputSet} |-> exeBase(k[1], k[2])]

ProbeTable ==
  [k \in UNION {{<<i[1], i[2].exePath, e>> : e \in DOMAIN ProbeEnvs(i[1])} : i \in InputSet} |->
     probeValue(k[1], k[2], ProbeEnvs(k[1])[k[3]])]

ExTable == [k \in InputSet |-> resolveEx(k[1], k[2])]

\* the values the probe of the input may complete with
MetaValues(pf, in) ==
  {Null} \cup {ProbeTable[<<pf, in.exePath, e>>] : e \in DOMAIN ProbeEnvs(pf)}

TiersTable ==
  [k \in UNION {{<<i[1], i[2], meta>> : meta \in MetaValues(i[1], i[2])} : i \in InputSet} |->
     tiersFromProbe(k[1], k[2], k[3])]

KeysTable ==
  [k \in UNION {{<<i[1], i[2].exePath>>, <<i[1], resolveEx(i[1], i[2])>>} : i \in InputSet} |->
     cacheKeys(k[1], k[2])]

(***************************************************************************)
(* The cache and its flush.                                                *)
(***************************************************************************)
EmptyCache == [byExe |-> EmptyMap, byPath |-> EmptyMap, updatedAt |-> 0]

\* loadCache: cache = { ...cache, ...json } when the file holds an object
loadCache(c, doc) ==
  IF doc = None \/ doc = Unparseable THEN c
  ELSE [f \in DOMAIN c |-> IF f \in DOMAIN doc THEN doc[f] ELSE c[f]]

\* saveCacheSoon setting a new timer at every call
saveCacheSoonRestart(fl) == "pending"

\* the timer of saveCacheSoon: "none" is timer = null; the timer stays set while
\* its callback awaits mkdir ("mkdir") and writeFile ("write")
saveCacheSoon(fl) == IF fl # "none" THEN fl ELSE "pending"

\* putCache writing the name under the basename only
putCacheKeysExeOnly(c, fl, k, name, now) ==
  IF Truthy(name) /\ k.ex # "" /\ Get(c.byExe, k.ex) # name
  THEN [cache |-> [c EXCEPT !.byExe = Put(c.byExe, k.ex, name), !.updatedAt = now],
        flush |-> saveCacheSoon(fl)]
  ELSE [cache |-> c, flush |-> fl]

\* putCache without its comparisons: a name is written and a flush asked for
\* at every call
putCacheKeysAlwaysTouch(c, fl, k, name, now) ==
  IF Truthy(name)
  THEN [cache |-> [byExe |-> IF k.ex # "" THEN Put(c.byExe, k.ex, name) ELSE c.byExe,
                   byPath |-> IF Truthy(k.pLower) THEN Put(c.byPath, k.pLower, name)
                              ELSE c.byPath,
                   updatedAt |-> now],
        flush |-> saveCacheSoon(fl)]
  ELSE [cache |-> c, flush |-> fl]

\* putCache from its keys k = [ex, pLower] on; the result is the cache and the
\* state of the flush timer
putCacheKeys(c, fl, k, name, now) ==
  LET touchExe == k.ex # "" /\ Get(c.byExe, k.ex) # name
      touchPath == Truthy(k.pLower) /\ Get(c.byPath, k.pLower) # name
  IN IF Truthy(name) /\ (touchExe \/ touchPath)
     THEN [cache |-> [byExe |-> IF touchExe THEN Put(c.byExe, k.ex, name) ELSE c.byExe,
                      byPath |-> IF touchPath THEN Put(c.byPath, k.pLower, name)
                                 ELSE c.byPath,
                      updatedAt |-> now],
           flush |-> saveCacheSoon(fl)]
     ELSE [cache |-> c, flush |-> fl]

putCache(c, fl, pf, exePath, name, now) ==
  putCacheKeys(c, fl, KeysTable[<<pf, exePath>>], name, now)

(***************************************************************************)
(* resolveDisplayName on the resolver's state.                             *)
(***************************************************************************)
\* tiers 1-3 from ex and p = lower(exePath) on; tier "none": no tier gave a
\* name.  put: the name is written to the cache
firstTiers(c, index, exePath, ex, p) ==
  IF ex # "" /\ ex \in DOMAIN knownMap
  THEN [tier |-> "known", name |-> knownMap[ex], put |-> FALSE]
  ELSE IF ex # "" /\ Truthy(Get(c.byExe, ex))
  THEN [tier |-> "byExe", name |-> Get(c.byExe, ex), put |-> FALSE]
  ELSE IF exePath # "" /\ Truthy(Get(c.byPath, p))
  THEN [tier |-> "byPath", name |-> Get(c.byPath, p), put |-> FALSE]
  ELSE IF exePath # "" /\ DOMAIN index # {} /\ Truthy(Get(index, p))
  THEN [tier |-> "index", name |-> Get(index, p), put |-> TRUE]
  ELSE [tier |-> "none", name |-> Null, put |-> FALSE]

tiersBeforeProbe(c, index, pf, in) ==
  firstTiers(c, index, in.exePath, ExTable[<<pf, in>>], KeysTable[<<pf, in.exePath>>].pLower)

\* how a call of resolveDisplayName ended, and what it left in the resolver
Resolved(threw, name, tier, c, fl) ==
  [pending |-> FALSE, threw |-> threw, name |-> name, tier |-> tier, cache |-> c,
   flush |-> fl]

\* a return after putCache, pc what putCache left
ResolvedPut(name, tier, pc) == Resolved(FALSE, name, tier, pc.cache, pc.flush)

\* the end of the call with the result a of tiers 4-7
resolveTiers(c, fl, pf, a, now) ==
  IF a.threw THEN Resolved(TRUE, Null, a.tier, c, fl)
  ELSE ResolvedPut(a.name, a.tier, putCache(c, fl, pf, a.key, a.name, now))

\* the call from the completion of the probe (value meta) to its end
resolveFromProbe(c, fl, pf, in, meta, now) ==
  resolveTiers(c, fl, pf, TiersTable[<<pf, in, meta>>], now)

\* the call from the result b of tiers 1-3 on
resolveFrom(c, fl, pf, in, now, b) ==
  IF b.tier # "none"
  THEN (IF b.put
        THEN ResolvedPut(b.name, b.tier, putCache(c, fl, pf, in.exePath, b.name, now))
        ELSE Resolved(FALSE, b.name, b.tier, c, fl))
  ELSE IF probes(pf, in.exePath)
  THEN [pending |-> TRUE, threw |-> FALSE, name |-> Null, tier |-> "meta", cache |-> c,
        flush |-> fl]
  ELSE resolveFromProbe(c, fl, pf, in, Null, now)

\* the call up to its first await of a probe (pending), or to its end
resolveDisplayName(c, fl, index, pf, in, now) ==
  resolveFrom(c, fl, pf, in, now, tiersBeforeProbe(c, index, pf, in))

(***************************************************************************)
(* State.                                                                  *)
(***************************************************************************)
VARIABLES
  platform,         \* process.platform
  clock,            \* Date.now()
  currentActive,    \* the live session, or None
  lastHeartbeatAt,
  ticks,            \* the pollActive invocations that are awaiting, by slot
  cache,            \* the resolver's cache {byExe, byPath, updatedAt}
  flush,            \* the timer of saveCacheSoon and the progress of its callback
  flushBuf,         \* the text handed to writeFile
  disk,             \* presence-cache.json, None when there is no file
  precomputedPaths, \* the library index
  call,             \* a direct call of resolveDisplayName that is awaiting, or None
  calls,            \* the number of direct calls made
  ret,              \* how the last call of resolveDisplayName ended
  sent,             \* the events the last step sent to the parent, in order
  hist,             \* summary of all events sent so far
  step,             \* what the last step did
  boot,             \* where start() is, and the files its warmup reads
  lastPut,          \* the arguments of the last direct call of putCache, or None
  classified        \* the last direct call of classify and its result, or None

\* the variables that only start() and the direct calls write
aux == <<boot, lastPut, classified>>

vars ==
  <<platform, clock, currentActive, lastHeartbeatAt, ticks, cache, flush, flushBuf, disk,
    precomputedPaths, call, calls, ret, sent, hist, step, aux>>

Slots == 1..MaxInFlight

IdleTick == [pc |-> "idle"]

(***************************************************************************)
(* Events.  at is the Date.now() of the tick the event belongs to (for a   *)
(* presence:update, the startedAt of its session).                         *)
(***************************************************************************)
Event(type, payload, at) == [type |-> type, payload |-> payload, at |-> at]

\* { ...payload, endedAt: now }
withEndedAt(payload, now) ==
  [f \in (DOMAIN payload) \cup {"endedAt"} |-> IF f = "endedAt" THEN now ELSE payload[f]]

\* v || null
orNull(v) == IF Truthy(v) THEN v ELSE Null

\* the signature fields as a payload carries them
SigOf(payload) == <<payload.exePath, payload.title, payload.app, payload.pid>>

\* updSigs: the signatures of the updates sent since the last ended; dup: an
\* update was sent for a signature in updSigs; beat: the last update or
\* heartbeat
ApplyEvent(h, e) ==
  IF e.type = "presence:update"
  THEN [updSigs |-> h.updSigs \cup {SigOf(e.payload)},
        dup |-> h.dup \/ SigOf(e.payload) \in h.updSigs,
        beat |-> [payload |-> e.payload, at |-> e.at]]
  ELSE IF e.type = "presence:heartbeat"
  THEN [h EXCEPT !.beat = [payload |-> e.payload, at |-> e.at]]
  ELSE IF e.type = "presence:ended"
  THEN [h EXCEPT !.updSigs = {}]
  ELSE h

RECURSIVE ApplyEvents(_, _)
ApplyEvents(h, evs) ==
  IF evs = <<>> THEN h ELSE ApplyEvents(ApplyEvent(h, Head(evs)), Tail(evs))

NoHist == [updSigs |-> {}, dup |-> FALSE, beat |-> None]

\* what a step did: op the callback that ran, branch the path pollActive took,
\* done: a pollActive invocation ended in the step, threw: an exception reached
\* pollActive's catch (or left resolveDisplayName, for a direct call),
\* excluded: the basename of the tick's window is in LAUNCHER_BASES or
\* NON_GAME_BASES, sig: the signature of the tick's window when it passed the
\* gates, from: the signature of the session the tick found live when it took
\* the branch for a new signature
Step(op, branch, done, threw, excluded, sig, from) ==
  [op |-> op, branch |-> branch, done |-> done, threw |-> threw, excluded |-> excluded,
   sig |-> sig, from |-> from]

\* how a call of resolveDisplayName ended: r its result, in its arguments,
\* c and index the cache and the library index when it was called, meta the
\* value of its probe
Ret(r, in, c, index, meta) ==
  [threw |-> r.threw, name |-> r.name, tier |-> r.tier, in |-> in, c |-> c,
   index |-> index, meta |-> meta]

(***************************************************************************)
(* pollActive.                                                             *)
(***************************************************************************)
buildPresencePayload(pf, source, exe, title, app, pid, displayName, now) ==
  [source |-> source,
   pid |-> pid,
   exePath |-> orNull(exe),
   exeName |-> orNull(ExeBaseTable[<<pf, exe>>]),
   displayName |-> orNull(displayName),
   title |-> orNull(title),
   app |-> orNull(app),
   extra |-> Null,
   ts |-> now]

\* the staleness test with >= for >
isStaleAtThreshold(ca, now) == ca # None /\ (now - ca.lastSeen) >= ACTIVE_STALE_MS

\* currentActive && (now - currentActive.lastSeen) > ACTIVE_STALE_MS
isStale(ca, now) ==
  ca # None /\ (now - ca.lastSeen) > ACTIVE_STALE_MS

\* finishCurrentIfStale: the live session afterwards and the events sent
finishCurrentIfStale(ca, now) ==
  IF isStale(ca, now)
  THEN [currentActive |-> None,
        sent |-> << Event("presence:ended", withEndedAt(ca.payload, now), now) >>]
  ELSE [currentActive |-> ca, sent |-> <<>>]

\* the heartbeat test with the poll interval for the heartbeat interval
heartbeatDuePollInterval(now, lastHb) == now - lastHb >= POLL_ACTIVE_MS

\* the exclusion without the non-game set
isExcludedLaunchersOnly(base) == base \in LAUNCHER_BASES

isExcluded(base) == base \in LAUNCHER_BASES \/ base \in NON_GAME_BASES

qualifies(cls, hint) == cls.category = "game" \/ cls.category = "geek" \/ hint

heartbeatDue(now, lastHb) == now - lastHb >= HEARTBEAT_MS

\* lines 171-186: the payload and the new session
sessionOf(pf, l, displayName, tnow, now) ==
  LET payload ==
        [f \in {"source", "pid", "exePath", "exeName", "displayName", "title", "app",
                "extra", "ts", "category", "confidence"} |->
           IF f = "category" THEN l.cls.category
           ELSE IF f = "confidence" THEN l.cls.confidence
           ELSE buildPresencePayload(pf, "active", l.exePath, l.title, l.procName, l.pid,
                                     displayName, now)[f]]
  IN [signature |-> l.signature, pid |-> l.pid, startedAt |-> tnow, lastSeen |-> tnow,
      payload |-> payload]

\* what pollActive leaves when it returns without touching the session
\* beyond finishCurrentIfStale (fin its result)
nonQualifying(branch, fin, hb, c, fl, prevRet, excluded) ==
  [ca |-> fin.currentActive, hb |-> hb, cache |-> c, flush |-> fl, sent |-> fin.sent,
   ret |-> prevRet, tick |-> IdleTick, threw |-> FALSE, branch |-> branch,
   excluded |-> excluded, sig |-> Null, from |-> Null]

sigOrNull(ca) == IF ca # None THEN ca.signature ELSE Null

\* lines 159-162: the ended of the previous session
endPrevious(ca, now) ==
  IF ca # None
  THEN << Event("presence:ended", withEndedAt(ca.payload, now), now) >>
  ELSE <<>>

\* lines 165-186 once resolveDisplayName has ended as r: the update and the
\* new session, or nothing when the call threw (pollActive's catch).  l: the
\* locals of the tick, tnow: its now, now: Date.now(), pre: the events the
\* tick has sent in this step before
afterResolve(pf, ca, hb, l, tnow, now, r, pre, session) ==
  IF r.threw
  THEN [ca |-> ca, hb |-> hb, cache |-> r.cache, flush |-> r.flush, sent |-> pre]
  ELSE [ca |-> session, hb |-> tnow, cache |-> r.cache, flush |-> r.flush,
        sent |-> pre \o << Event("presence:update", session.payload, tnow) >>]

\* lines 158-186 with r what the call of resolveDisplayName gave in this turn
\* of the event loop
newSignature(pf, ca, hb, c, fl, index, prevRet, now, l, excluded, r) ==
  IF r.pending
  THEN [ca |-> ca, hb |-> hb, cache |-> c, flush |-> fl, sent |-> endPrevious(ca, now),
        ret |-> prevRet,
        tick |-> [pc |-> "meta", now |-> now, l |-> l, c |-> c, from |-> sigOrNull(ca)],
        threw |-> FALSE, branch |-> "new", excluded |-> excluded, sig |-> l.signature,
        from |-> sigOrNull(ca)]
  ELSE afterResolve(pf, ca, hb, l, now, now, r, endPrevious(ca, now),
                    sessionOf(pf, l, r.name, now, now))
       @@ [ret |-> Ret(r, inputOf(l), c, index, Null), tick |-> IdleTick,
           threw |-> r.threw, branch |-> "new", excluded |-> excluded,
           sig |-> l.signature, from |-> sigOrNull(ca)]

\* lines 187-194
sameWindow(ca, hb, c, fl, prevRet, now, excluded, sig) ==
  [ca |-> [ca EXCEPT !.lastSeen = now],
   hb |-> IF heartbeatDue(now, hb) THEN now ELSE hb,
   cache |-> c, flush |-> fl,
   sent |-> IF heartbeatDue(now, hb)
            THEN << Event("presence:heartbeat", ca.payload, now) >>
            ELSE <<>>,
   ret |-> prevRet, tick |-> IdleTick, threw |-> FALSE, branch |-> "same",
   excluded |-> excluded, sig |-> sig, from |-> Null]

\* lines 145-194 with the locals l
pollLocals(pf, ca, hb, c, fl, index, prevRet, now, l, excluded) ==
  IF isExcluded(l.base)
  THEN nonQualifying("excluded", finishCurrentIfStale(ca, now), hb, c, fl, prevRet, excluded)
  ELSE IF ~qualifies(l.cls, l.hint)
  THEN nonQualifying("other", finishCurrentIfStale(ca, now), hb, c, fl, prevRet, excluded)
  ELSE IF ca = None \/ ca.signature # l.signature
  THEN newSignature(pf, ca, hb, c, fl, index, prevRet, now, l, excluded,
                    resolveDisplayName(c, fl, index, pf, inputOf(l), now))
  ELSE sameWindow(ca, hb, c, fl, prevRet, now, excluded, l.signature)

\* pollActive from the answer aw of the window probe (a window) on
pollWindow(pf, ca, hb, c, fl, index, prevRet, aw, now) ==
  pollLocals(pf, ca, hb, c, fl, index, prevRet, now, LocalsTable[<<pf, aw>>],
             LocalsTable[<<pf, aw>>].base \in LAUNCHER_BASES \cup NON_GAME_BASES)

\* start() (lines 209-221).  pc: "load", "steam", "epic": warmup is awaiting
\* loadCache, scanSteam, scanEpic; "run": warmup has returned, presence:ready
\* is sent and the poll timer is set.  fs: the files warmup reads, None once it
\* has read them.  ready: the presence:ready events sent
Running == [pc |-> "run", fs |-> None, ready |-> 1]

\* the poll timer exists: setInterval is called after the awaited warmup
timerArmedAlways(b) == TRUE

timerArmed(b) == b.pc = "run"

FreeSlot(t) == ticks[t].pc = "idle" /\ \A u \in Slots : u < t => ticks[u].pc # "idle"

\* setInterval(pollActive, POLL_ACTIVE_MS): the timer fires and pollActive runs
\* to its await of the window probe
TimerFire ==
  /\ timerArmed(boot)
  /\ clock < MaxTicks * POLL_ACTIVE_MS
  /\ \E t \in Slots :
       /\ FreeSlot(t)
       /\ ticks' = [ticks EXCEPT ![t] = [pc |-> "probe"]]
  /\ clock' = clock + POLL_ACTIVE_MS
  /\ sent' = <<>>
  /\ step' = Step("timer", "", FALSE, FALSE, FALSE, Null, Null)
  /\ UNCHANGED <<aux, platform, currentActive, lastHeartbeatAt, cache, flush, flushBuf, disk,
                 precomputedPaths, call, calls, ret, hist>>

\* ensureDeps or activeWin throws: pollActive's catch logs and the tick ends
ProbeThrows(t) ==
  /\ ticks[t].pc = "probe"
  /\ ticks' = [ticks EXCEPT ![t] = IdleTick]
  /\ sent' = <<>>
  /\ step' = Step("probe", "throw", TRUE, TRUE, FALSE, Null, Null)
  /\ UNCHANGED <<aux, platform, clock, currentActive, lastHeartbeatAt, cache, flush, flushBuf,
                 disk, precomputedPaths, call, calls, ret, hist>>

\* the state after a tick's turn of the event loop that left o
Polled(t, op, o) ==
  /\ currentActive' = o.ca
  /\ lastHeartbeatAt' = o.hb
  /\ cache' = o.cache
  /\ flush' = o.flush
  /\ sent' = o.sent
  /\ ret' = o.ret
  /\ hist' = ApplyEvents(hist, o.sent)
  /\ ticks' = [ticks EXCEPT ![t] = o.tick]
  /\ step' = Step(op, o.branch, o.tick.pc = "idle", o.threw, o.excluded, o.sig, o.from)
  /\ UNCHANGED <<aux, platform, clock, flushBuf, disk, precomputedPaths, call, calls>>

\* activeWin answers that there is no window
ProbeNoWindow(t) ==
  /\ ticks[t].pc = "probe"
  /\ Polled(t, "probe",
            nonQualifying("nowindow", finishCurrentIfStale(currentActive, clock),
                          lastHeartbeatAt, cache, flush, ret, FALSE))

\* activeWin answers with the window aw
ProbeWindow(t, aw) ==
  /\ ticks[t].pc = "probe"
  /\ Polled(t, "probe",
            pollWindow(platform, currentActive, lastHeartbeatAt, cache, flush,
                       precomputedPaths, ret, aw, clock))

\* the rest of the tick tk once its call of resolveDisplayName has ended as r
\* after the probe's value meta
metaResolved(pf, ca, hb, index, tk, now, meta, r) ==
  afterResolve(pf, ca, hb, tk.l, tk.now, now, r, <<>>,
               sessionOf(pf, tk.l, r.name, tk.now, now))
  @@ [ret |-> Ret(r, inputOf(tk.l), tk.c, index, meta), tick |-> IdleTick,
      threw |-> r.threw, branch |-> "new", excluded |-> FALSE, sig |-> tk.l.signature,
      from |-> tk.from]

\* the rest of the tick tk from the probe's value meta on
metaValue(pf, ca, hb, c, fl, index, tk, now, meta) ==
  metaResolved(pf, ca, hb, index, tk, now, meta,
               resolveFromProbe(c, fl, pf, inputOf(tk.l), meta, now))

\* the metadata probe awaited by resolveDisplayName completes (the operating
\* system answers as the e-th of ProbeEnvs), the resolver goes through its
\* remaining tiers and pollActive runs to its end
MetaReturn(t, e) ==
  /\ ticks[t].pc = "meta"
  /\ Polled(t, "meta",
            metaValue(platform, currentActive, lastHeartbeatAt, cache, flush,
                      precomputedPaths, ticks[t], clock,
                      ProbeTable[<<platform, ticks[t].l.exePath, e>>]))

(***************************************************************************)
(* The callback of saveCacheSoon's timer.                                  *)
(***************************************************************************)
\* the timer fires; the callback calls mkdir and awaits it
FlushFire ==
  /\ flush = "pending"
  /\ flush' = "mkdir"
  /\ sent' = <<>>
  /\ step' = Step("flush", "fire", FALSE, FALSE, FALSE, Null, Null)
  /\ UNCHANGED <<aux, platform, clock, currentActive, lastHeartbeatAt, ticks, cache, flushBuf,
                 disk, precomputedPaths, call, calls, ret, hist>>

\* mkdir completes: the cache is serialized as it is now and writeFile is
\* awaited; or mkdir fails, the catch logs and the timer is cleared
MkdirDone(ok) ==
  /\ flush = "mkdir"
  /\ flush' = IF ok THEN "write" ELSE "none"
  /\ flushBuf' = IF ok THEN cache ELSE flushBuf
  /\ sent' = <<>>
  /\ step' = Step("flush", IF ok THEN "mkdir" ELSE "mkdirFailed", FALSE, FALSE, FALSE, Null, Null)
  /\ UNCHANGED <<aux, platform, clock, currentActive, lastHeartbeatAt, ticks, cache, disk,
                 precomputedPaths, call, calls, ret, hist>>

\* the write settles, timer = null being left inside the try: after a failed
\* write the timer stays set for good
WriteDoneTimerInTry(ok) ==
  /\ flush = "write"
  /\ flush' = IF ok THEN "none" ELSE "spent"
  /\ disk' = IF ok THEN flushBuf ELSE disk
  /\ sent' = <<>>
  /\ step' = Step("flush", IF ok THEN "write" ELSE "writeFailed", FALSE, FALSE, FALSE, Null, Null)
  /\ UNCHANGED <<aux, platform, clock, currentActive, lastHeartbeatAt, ticks, cache, flushBuf,
                 precomputedPaths, call, calls, ret, hist>>

\* writeFile completes or fails; the timer is cleared
WriteDone(ok) ==
  /\ flush = "write"
  /\ flush' = "none"
  /\ disk' = IF ok THEN flushBuf ELSE disk
  /\ sent' = <<>>
  /\ step' = Step("flush", IF ok THEN "write" ELSE "writeFailed", FALSE, FALSE, FALSE, Null, Null)
  /\ UNCHANGED <<aux, platform, clock, currentActive, lastHeartbeatAt, ticks, cache, flushBuf,
                 precomputedPaths, call, calls, ret, hist>>

(***************************************************************************)
(* The worker on win32: the state after start() has awaited warmup on a     *)
(* machine with no cache file and no launcher library, and has set the     *)
(* poll timer.                                                             *)
(* The callback of the flush timer writes flush, flushBuf and disk only;   *)
(* it runs in SpecResolver.                                                *)
(***************************************************************************)
Init ==
  /\ platform = "win32"
  /\ clock = 0
  /\ currentActive = None
  /\ lastHeartbeatAt = 0
  /\ ticks = [t \in Slots |-> IdleTick]
  /\ cache = EmptyCache
  /\ flush = "none"
  /\ flushBuf = None
  /\ disk = None
  /\ precomputedPaths = EmptyMap
  /\ call = None
  /\ calls = 0
  /\ ret = None
  /\ sent = <<>>
  /\ hist = NoHist
  /\ step = Step("start", "", FALSE, FALSE, FALSE, Null, Null)
  /\ boot = Running
  /\ lastPut = None
  /\ classified = None

Next ==
  \/ TimerFire
  \/ \E t \in Slots : ProbeThrows(t)
  \/ \E t \in Slots : ProbeNoWindow(t)
  \/ \E t \in Slots : \E aw \in Windows(platform) : ProbeWindow(t, aw)
  \/ \E t \in Slots : \E e \in DOMAIN ProbeEnvs(platform) : MetaReturn(t, e)

Spec == Init /\ [][Next]_vars

(***************************************************************************)
(* The resolver alone: resolveDisplayName called with arguments of         *)
(* DirectInputs, one call at a time, a poll interval apart, on a resolver  *)
(* whose warmup has loaded one of DiskDocs and built one of Indexes.       *)
(***************************************************************************)
\* the state after a turn of the event loop in which the call with the
\* arguments in, made on the cache c0, went on and gave r
Called(in, c0, meta, r) ==
  /\ cache' = r.cache
  /\ flush' = r.flush
  /\ call' = IF r.pending THEN [in |-> in, c |-> c0] ELSE None
  /\ ret' = IF r.pending THEN ret ELSE Ret(r, in, c0, precomputedPaths, meta)
  /\ step' = Step("resolve", IF r.pending THEN "await" ELSE r.tier, ~r.pending, r.threw,
                  FALSE, Null, Null)
  /\ sent' = <<>>
  /\ UNCHANGED <<aux, platform, currentActive, lastHeartbeatAt, ticks, flushBuf, disk,
                 precomputedPaths, hist>>

\* resolveDisplayName is called and runs to its await of the probe or to its end
Resolve(in) ==
  /\ call = None
  /\ calls < MaxCalls
  /\ calls' = calls + 1
  /\ clock' = clock + POLL_ACTIVE_MS
  /\ Called(in, cache, Null,
            resolveDisplayName(cache, flush, precomputedPaths, platform, in,
                               clock + POLL_ACTIVE_MS))

\* the value meta of the probe arrives and the awaiting call runs to its end
resolveMetaValue(in, c0, meta) ==
  Called(in, c0, meta, resolveFromProbe(cache, flush, platform, in, meta, clock))

\* the probe of the awaiting call completes
ResolveMeta(e) ==
  /\ call # None
  /\ resolveMetaValue(call.in, call.c, ProbeTable[<<platform, call.in.exePath, e>>])
  /\ UNCHANGED <<clock, calls>>

InitResolver ==
  /\ platform \in Platforms
  /\ clock = 0
  /\ currentActive = None
  /\ lastHeartbeatAt = 0
  /\ ticks = [t \in Slots |-> IdleTick]
  /\ disk \in DiskDocs(platform)
  /\ cache = loadCache(EmptyCache, disk)
  /\ flush = "none"
  /\ flushBuf = None
  /\ precomputedPaths \in Indexes(platform)
  /\ call = None
  /\ calls = 0
  /\ ret = None
  /\ sent = <<>>
  /\ hist = NoHist
  /\ step = Step("start", "", FALSE, FALSE, FALSE, Null, Null)
  /\ boot = Running
  /\ lastPut = None
  /\ classified = None

NextResolver ==
  \/ \E in \in DirectInputs(platform) : Resolve(in)
  \/ \E e \in DOMAIN ProbeEnvs(platform) : ResolveMeta(e)
  \/ FlushFire
  \/ \E ok \in BOOLEAN : MkdirDone(ok)
  \/ \E ok \in BOOLEAN : WriteDone(ok)

SpecResolver == InitResolver /\ [][NextResolver]_vars

(***************************************************************************)
(* The library scans of warmup.  The files they read are fs = [ls, text]:  *)
(* ls maps a directory to its entries [name, kind] in readdir's order      *)
(* (kind "dir", "file" or "other"), text maps a file to what its parser    *)
(* returns, Unparseable when the parser throws.  readdir and readFile fail *)
(* on a path that is no key.  The paths hold no "." or ".." segment.       *)
(***************************************************************************)
Sep(pf) == IF pf = "win32" THEN "\\" ELSE "/"

\* path.normalize: one separator of the platform for each run of separators;
\* normalizeRange is what the characters lo..hi of p become
RECURSIVE normalizeRange(_, _, _, _)
normalizeRange(pf, p, lo, hi) ==
  IF lo > hi THEN ""
  ELSE IF lo = hi
  THEN IF PathSep(pf, CharAt(p, lo))
       THEN IF lo < Len(p) /\ PathSep(pf, CharAt(p, lo + 1)) THEN "" ELSE Sep(pf)
       ELSE CharAt(p, lo)
  ELSE normalizeRange(pf, p, lo, (lo + hi) \div 2)
         \o normalizeRange(pf, p, (lo + hi) \div 2 + 1, hi)

normalize(pf, p) == normalizeRange(pf, p, 1, Len(p))

\* path.join of two segments
join(pf, a, b) ==
  IF a = "" THEN normalize(pf, b)
  ELSE IF b = "" THEN normalize(pf, a)
  ELSE normalize(pf, a \o Sep(pf) \o b)

\* path.dirname of a path that holds a separator after its first character
dirname(pf, p) ==
  LET cuts == {i \in 2..Len(p) : PathSep(pf, CharAt(p, i))}
  IN IF cuts = {} THEN "." ELSE SubSeq(p, 1, (CHOOSE i \in cuts : \A j \in cuts : j <= i) - 1)

\* os.homedir()
HOME(pf) ==
  IF pf = "win32" THEN "C:\\Users\\u" ELSE IF pf = "darwin" THEN "/Users/u" ELSE "/home/u"

steamCandidates(pf) ==
  IF pf = "win32"
  THEN << "C:\\Program Files (x86)\\Steam\\steamapps",
          "C:\\Program Files\\Steam\\steamapps",
          join(pf, HOME(pf), "AppData\\Local\\Steam\\steamapps") >>
  ELSE IF pf = "darwin"
  THEN << join(pf, HOME(pf), "Library/Application Support/Steam/steamapps") >>
  ELSE << join(pf, HOME(pf), ".local/share/Steam/steamapps"),
          "/usr/local/share/Steam/steamapps" >>

\* findExecutablesWindows: the .exe files under d, lvl directories deep, in
\* the order of the walk
RECURSIVE exesOf(_, _, _, _)
exesIn(pf, fs, d, lvl) ==
  IF lvl < 0 \/ d \notin DOMAIN fs.ls THEN <<>> ELSE exesOf(pf, fs, d, lvl)

exesOf(pf, fs, d, lvl) ==
  LET walk[i \in 0..Len(fs.ls[d])] ==
        IF i = 0 THEN <<>>
        ELSE LET e == fs.ls[d][i]
                 p == join(pf, d, e.name)
             IN IF e.kind = "dir"
                THEN IF toLowerCase(e.name) \in {"redist", "_commonredist"} THEN walk[i - 1]
                     ELSE walk[i - 1] \o exesIn(pf, fs, p, lvl - 1)
                ELSE IF e.kind = "file" /\ endsWith(toLowerCase(e.name), ".exe")
                THEN Append(walk[i - 1], p)
                ELSE walk[i - 1]
  IN walk[Len(fs.ls[d])]

findExecutablesWindows(pf, fs, dir, depth) == exesIn(pf, fs, dir, depth)

\* findAppBundleMac: dfs(d, lvl) entered with found, what it leaves in found
RECURSIVE appOf(_, _, _, _, _)
appIn(pf, fs, d, lvl, found) ==
  IF found # Null \/ lvl < 0 \/ d \notin DOMAIN fs.ls THEN found
  ELSE appOf(pf, fs, d, lvl, found)

\* the loop over the entries of d: [found, returned] after each entry
appOf(pf, fs, d, lvl, found) ==
  LET walk[i \in 0..Len(fs.ls[d])] ==
        IF i = 0 THEN [found |-> found, returned |-> FALSE]
        ELSE LET e == fs.ls[d][i]
                 p == join(pf, d, e.name)
                 w == walk[i - 1]
             IN IF w.returned \/ e.kind # "dir" THEN w
                ELSE IF endsWith(e.name, ".app") THEN [found |-> p, returned |-> TRUE]
                ELSE [found |-> appIn(pf, fs, p, lvl - 1, w.found), returned |-> FALSE]
  IN walk[Len(fs.ls[d])].found

findAppBundleMac(pf, fs, dir, depth) == appIn(pf, fs, dir, depth, Null)

\* readFile and the parser: the parsed text of the file, None when readFile
\* or the parser throws
parsed(fs, p) ==
  IF p \notin DOMAIN fs.text THEN None
  ELSE IF fs.text[p] = Unparseable THEN None
  ELSE fs.text[p]

\* one manifest file f of dir (lines 128-158): the index it leaves.  The
\* parsed manifest is its AppState, [name, installdir]
steamManifest(pf, fs, dir, f, result) ==
  LET man == parsed(fs, join(pf, dir, f))
      commonDir == join(pf, join(pf, dir, "common"), man.installdir)
      exes == findExecutablesWindows(pf, fs, commonDir, 2)
      foundExe == IF pf = "win32" THEN (IF exes # <<>> THEN exes[1] ELSE Null)
                  ELSE IF pf = "darwin" THEN findAppBundleMac(pf, fs, commonDir, 2)
                  ELSE Null
  IN IF ~startsWith(f, "appmanifest_") \/ ~endsWith(f, ".acf") THEN result
     ELSE IF man = None THEN result
     ELSE IF ~Truthy(man.name) \/ ~Truthy(man.installdir) THEN result
     ELSE IF Truthy(foundExe) THEN Put(result, lower(foundExe), man.name)
     ELSE result

\* the manifests of one directory (lines 125-159)
steamDir(pf, fs, dir, result) ==
  IF dir \notin DOMAIN fs.ls THEN result
  ELSE LET files == fs.ls[dir]
           loop[i \in 0..Len(files)] ==
             IF i = 0 THEN result
             ELSE steamManifest(pf, fs, dir, files[i].name, loop[i - 1])
       IN loop[Len(files)]

\* v.path || v of a value of libraryfolders: v is [isObj, path, str]; Null for
\* an object without a path, which path.join refuses with a TypeError
libOf(v) == IF v.isObj THEN (IF Truthy(v.path) THEN v.path ELSE Null) ELSE v.str

\* one candidate root (lines 115-163): the parsed libraryfolders.vdf is
\* [libraryfolders |-> the values in order], <<>> when it has no such key
steamRoot(pf, fs, sap, result) ==
  LET libPath == join(pf, sap, "libraryfolders.vdf")
      jf == parsed(fs, libPath)
      vals == jf.libraryfolders
      libs == SelectSeq([i \in 1..Len(vals) |-> libOf(vals[i])], LAMBDA p : p # "")
      libDirs == << dirname(pf, libPath) >>
                   \o [i \in 1..Len(libs) |-> join(pf, libs[i], "steamapps")]
      loop[i \in 0..Len(libDirs)] ==
        IF i = 0 THEN result ELSE steamDir(pf, fs, libDirs[i], loop[i - 1])
  IN IF jf = None THEN result
     ELSE IF \E i \in 1..Len(vals) : libOf(vals[i]) = Null THEN result
     ELSE loop[Len(libDirs)]

scanSteam(pf, fs) ==
  LET roots == steamCandidates(pf)
      loop[i \in 0..Len(roots)] ==
        IF i = 0 THEN EmptyMap ELSE steamRoot(pf, fs, roots[i], loop[i - 1])
  IN loop[Len(roots)]

EpicManifestDir == "C:\\ProgramData\\Epic\\EpicGamesLauncher\\Data\\Manifests"

\* one file of the manifest directory (lines 232-247); the parsed manifest is
\* [DisplayName, InstallLocation, LaunchExecutable]
epicManifest(pf, fs, f, result) ==
  LET j == parsed(fs, join(pf, EpicManifestDir, f))
  IN IF ~endsWith(toLowerCase(f), ".item") THEN result
     ELSE IF j = None THEN result
     ELSE IF ~Truthy(j.DisplayName) \/ ~Truthy(j.InstallLocation)
             \/ ~Truthy(j.LaunchExecutable)
     THEN result
     ELSE Put(result, lower(join(pf, j.InstallLocation, j.LaunchExecutable)), j.DisplayName)

scanEpic(pf, fs) ==
  IF pf # "win32" \/ EpicManifestDir \notin DOMAIN fs.ls THEN EmptyMap
  ELSE LET files == fs.ls[EpicManifestDir]
           loop[i \in 0..Len(files)] ==
             IF i = 0 THEN EmptyMap ELSE epicManifest(pf, fs, files[i].name, loop[i - 1])
       IN loop[Len(files)]

\* for (const [p, n] of scan) precomputedPaths.set(p, n)
setAllFirstWins(index, scan) ==
  [p \in (DOMAIN index) \cup (DOMAIN scan) |-> IF p \in DOMAIN index THEN index[p] ELSE scan[p]]

setAll(index, scan) ==
  [p \in (DOMAIN index) \cup (DOMAIN scan) |-> IF p \in DOMAIN scan THEN scan[p] ELSE index[p]]

(***************************************************************************)
(* The machines warmup runs on: the files of a platform's library, less a  *)
(* set of them that cannot be read (gone) or, for a file, parsed (garbled).*)
(***************************************************************************)
File(name) == [name |-> name, kind |-> "file"]
Dir(name) == [name |-> name, kind |-> "dir"]
LibObj(p) == [isObj |-> TRUE, path |-> p, str |-> Null]
LibStr(s) == [isObj |-> FALSE, path |-> Undefined, str |-> s]
AppState(name, installdir) == [name |-> name, installdir |-> installdir]
EpicItem(name, install, exeRel) ==
  [DisplayName |-> name, InstallLocation |-> install, LaunchExecutable |-> exeRel]

SteamRoot1(pf) == steamCandidates(pf)[1]

LibraryWin32 ==
  [ls |->
     (SteamRoot1("win32") :>
        << File("appmanifest_10.acf"), File("libraryfolders.vdf"), Dir("common") >>)
     @@ ("C:\\Program Files (x86)\\Steam\\steamapps\\common\\cs2" :>
        << Dir("Redist"), File("notes.txt"), Dir("bin") >>)
     @@ ("C:\\Program Files (x86)\\Steam\\steamapps\\common\\cs2\\Redist" :>
        << File("vc.exe") >>)
     @@ ("C:\\Program Files (x86)\\Steam\\steamapps\\common\\cs2\\bin" :>
        << File("cs2.exe") >>)
     @@ ("D:\\steamapps" :>
        << File("appmanifest_20.acf"), File("appmanifest_21.acf"),
           File("appmanifest_22.acf"), File("appmanifest_23.acf"), File("readme.txt") >>)
     @@ ("D:\\steamapps\\common\\Foo" :> << File("foo.exe") >>)
     @@ ("D:\\steamapps\\common\\foo" :> << File("foo.exe") >>)
     @@ ("D:\\steamapps\\common\\Empty" :> << File("readme.txt") >>)
     @@ (EpicManifestDir :>
        << File("a.item"), File("B.ITEM"), File("c.txt"), File("d.item") >>),
   text |->
     ("C:\\Program Files (x86)\\Steam\\steamapps\\libraryfolders.vdf" :>
        [libraryfolders |-> << LibObj("D:\\"), LibStr("") >>])
     @@ ("C:\\Program Files (x86)\\Steam\\steamapps\\appmanifest_10.acf" :>
        AppState("CS Two", "cs2"))
     @@ ("D:\\steamapps\\appmanifest_20.acf" :> AppState("Foo Game", "Foo"))
     @@ ("D:\\steamapps\\appmanifest_21.acf" :> AppState("Foo Deluxe", "foo"))
     @@ ("D:\\steamapps\\appmanifest_22.acf" :> AppState("No Dir", Undefined))
     @@ ("D:\\steamapps\\appmanifest_23.acf" :> AppState("Empty", "Empty"))
     @@ ("C:\\ProgramData\\Epic\\EpicGamesLauncher\\Data\\Manifests\\a.item" :>
        EpicItem("Epic Foo", "D:\\steamapps\\common\\Foo", "foo.exe"))
     @@ ("C:\\ProgramData\\Epic\\EpicGamesLauncher\\Data\\Manifests\\B.ITEM" :>
        EpicItem("Bar", "E:/Epic/Bar", "bin/Bar.exe"))
     @@ ("C:\\ProgramData\\Epic\\EpicGamesLauncher\\Data\\Manifests\\c.txt" :>
        EpicItem("Not An Item", "E:\\Epic\\C", "c.exe"))
     @@ ("C:\\ProgramData\\Epic\\EpicGamesLauncher\\Data\\Manifests\\d.item" :>
        EpicItem("Half", Undefined, "d.exe"))]

LibraryDarwin ==
  [ls |->
     ("/Users/u/Library/Application Support/Steam/steamapps" :>
        << File("appmanifest_30.acf") >>)
     @@ ("/Users/u/Library/Application Support/Steam/steamapps/common/MacGame" :>
        << File("readme.txt"), Dir("Data"), Dir("MacGame.app") >>)
     @@ ("/Users/u/Library/Application Support/Steam/steamapps/common/MacGame/Data" :>
        << File("a.bin") >>),
   text |->
     ("/Users/u/Library/Application Support/Steam/steamapps/libraryfolders.vdf" :>
        [libraryfolders |-> <<>>])
     @@ ("/Users/u/Library/Application Support/Steam/steamapps/appmanifest_30.acf" :>
        AppState("Mac Game", "MacGame"))]

LibraryLinux ==
  [ls |->
     ("/home/u/.local/share/Steam/steamapps" :> << File("appmanifest_40.acf") >>)
     @@ ("/home/u/.local/share/Steam/steamapps/common/Tux" :> << File("tux.x86_64") >>),
   text |->
     ("/home/u/.local/share/Steam/steamapps/libraryfolders.vdf" :>
        [libraryfolders |-> << LibStr("/mnt/games") >>])
     @@ ("/home/u/.local/share/Steam/steamapps/appmanifest_40.acf" :>
        AppState("Tux Game", "Tux"))]

Library(pf) ==
  IF pf = "win32" THEN LibraryWin32 ELSE IF pf = "darwin" THEN LibraryDarwin
  ELSE LibraryLinux

\* the directories and files that may be unreadable
Breakable(pf) ==
  IF pf = "win32"
  THEN {"C:\\Program Files (x86)\\Steam\\steamapps\\libraryfolders.vdf",
        "D:\\steamapps",
        "D:\\steamapps\\appmanifest_20.acf",
        "D:\\steamapps\\appmanifest_21.acf",
        "D:\\steamapps\\common\\Foo",
        EpicManifestDir,
        "C:\\ProgramData\\Epic\\EpicGamesLauncher\\Data\\Manifests\\a.item",
        "C:\\ProgramData\\Epic\\EpicGamesLauncher\\Data\\Manifests\\B.ITEM"}
  ELSE IF pf = "darwin"
  THEN {"/Users/u/Library/Application Support/Steam/steamapps/libraryfolders.vdf",
        "/Users/u/Library/Application Support/Steam/steamapps/appmanifest_30.acf",
        "/Users/u/Library/Application Support/Steam/steamapps/common/MacGame"}
  ELSE {"/home/u/.local/share/Steam/steamapps/libraryfolders.vdf",
        "/home/u/.local/share/Steam/steamapps/appmanifest_40.acf"}

\* the library without the paths of broken: gone, or their text garbled
Machine(pf, broken, garbled) ==
  LET lib == Library(pf)
  IN [ls |-> [d \in (DOMAIN lib.ls) \ broken |-> lib.ls[d]],
      text |-> [f \in (IF garbled THEN DOMAIN lib.text ELSE (DOMAIN lib.text) \ broken) |->
                  IF f \in broken THEN Unparseable ELSE lib.text[f]]]

\* the machines of a platform, each named by what cannot be read on it
Machines(pf) == [broken : SUBSET Breakable(pf), garbled : BOOLEAN]

\* what scanSteam and scanEpic return on each machine
SteamScans ==
  [pf \in Platforms |->
     [m \in Machines(pf) |-> scanSteam(pf, Machine(pf, m.broken, m.garbled))]]

EpicScans ==
  [pf \in Platforms |->
     [m \in Machines(pf) |-> scanEpic(pf, Machine(pf, m.broken, m.garbled))]]

\* presence-cache.json when the worker starts: none, one JSON.parse refuses,
\* one written by an earlier run
StartDocs(pf) ==
  {None, Unparseable,
   [byExe |-> ("foo.exe" :> "Foo Cached"), byPath |-> EmptyMap, updatedAt |-> 0]}

(***************************************************************************)
(* start(): warmup, presence:ready, the poll timer.  Nothing else runs     *)
(* while warmup awaits, so each of loadCache, scanSteam and scanEpic is    *)
(* one step.  boot.fs names the machine the worker runs on, which stays as *)
(* it is while warmup runs: boot.steam and boot.epic are what scanSteam and *)
(* scanEpic return on it.                                                  *)
(***************************************************************************)
\* the poll timer fires at most this many times in a run of SpecStart
MaxStartTicks == 2

\* warmup has returned: presence:ready, setInterval
started(b) == [pc |-> "run", fs |-> None, ready |-> b.ready + 1]

Warmed(b, c, index, evs, branch) ==
  /\ boot' = b
  /\ cache' = c
  /\ precomputedPaths' = index
  /\ sent' = evs
  /\ step' = Step("warmup", branch, FALSE, FALSE, FALSE, Null, Null)
  /\ UNCHANGED <<lastPut, classified, platform, clock, currentActive, lastHeartbeatAt,
                 ticks, flush, flushBuf, disk, call, calls, ret, hist>>

\* await loadCache()
LoadCache ==
  /\ boot.pc = "load"
  /\ Warmed([boot EXCEPT !.pc = "steam"], loadCache(cache, disk), precomputedPaths, <<>>,
            "load")

\* scanSteam returns; off win32 scanEpic returns without an await and start()
\* goes on
ScanSteam ==
  /\ boot.pc = "steam"
  /\ IF platform = "win32"
     THEN Warmed([boot EXCEPT !.pc = "epic"], cache,
                 setAll(precomputedPaths, boot.steam), <<>>, "steam")
     ELSE Warmed(started(boot), cache,
                 setAll(setAll(precomputedPaths, boot.steam), boot.epic),
                 << Event("presence:ready", Null, clock) >>, "ready")

\* scanEpic returns and start() goes on
ScanEpic ==
  /\ boot.pc = "epic"
  /\ Warmed(started(boot), cache, setAll(precomputedPaths, boot.epic),
            << Event("presence:ready", Null, clock) >>, "ready")

StartTick == clock < MaxStartTicks * POLL_ACTIVE_MS /\ TimerFire

InitStart ==
  /\ platform \in Platforms
  /\ \E m \in Machines(platform) :
       boot = [pc |-> "load", fs |-> m, steam |-> SteamScans[platform][m],
               epic |-> EpicScans[platform][m], ready |-> 0]
  /\ disk \in StartDocs(platform)
  /\ clock = 0
  /\ currentActive = None
  /\ lastHeartbeatAt = 0
  /\ ticks = [t \in Slots |-> IdleTick]
  /\ cache = EmptyCache
  /\ flush = "none"
  /\ flushBuf = None
  /\ precomputedPaths = EmptyMap
  /\ call = None
  /\ calls = 0
  /\ ret = None
  /\ sent = <<>>
  /\ hist = NoHist
  /\ step = Step("start", "", FALSE, FALSE, FALSE, Null, Null)
  /\ lastPut = None
  /\ classified = None

NextStart ==
  \/ LoadCache
  \/ ScanSteam
  \/ ScanEpic
  \/ StartTick
  \/ \E t \in Slots : ProbeThrows(t)
  \/ \E t \in Slots : ProbeNoWindow(t)
  \/ \E t \in Slots : \E aw \in Windows(platform) : ProbeWindow(t, aw)
  \/ \E t \in Slots : \E e \in DOMAIN ProbeEnvs(platform) : MetaReturn(t, e)
  \/ FlushFire
  \/ \E ok \in BOOLEAN : MkdirDone(ok)
  \/ \E ok \in BOOLEAN : WriteDone(ok)

SpecStart == InitStart /\ [][NextStart]_vars

\* the reads of warmup end: readFile and readdir settle, with a value or an
\* error
SpecStartFair ==
  SpecStart /\ WF_vars(LoadCache) /\ WF_vars(ScanSteam) /\ WF_vars(ScanEpic)

\* activeWin() settles in a tick that awaits it
ProbeSettles ==
  \E t \in Slots :
    \/ ProbeThrows(t)
    \/ ProbeNoWindow(t)
    \/ \E aw \in Windows(platform) : ProbeWindow(t, aw)

\* everything the worker awaits settles, but for the metadata probe of
\* resolveDisplayName: no timer bounds it, and the process it spawns may
\* neither close nor fail
SpecPollFair ==
  /\ SpecStartFair
  /\ WF_vars(ProbeSettles)
  /\ WF_vars(FlushFire)
  /\ WF_vars(\E ok \in BOOLEAN : MkdirDone(ok))
  /\ WF_vars(\E ok \in BOOLEAN : WriteDone(ok))

(***************************************************************************)
(* putCache alone: called on a loaded cache, one call after another, the   *)
(* flush timer and its callback running in between.                        *)
(***************************************************************************)
\* calls of putCache in a run of SpecCache
MaxPuts == 3
\* Date.now() advances by this much from one call to the next
PutGap == 250

PutPaths(pf) ==
  IF pf = "win32" THEN {"", "C:\\Games\\cs2\\cs2.exe", SamplePath(pf)}
  ELSE {"", "/games/cs2/cs2.exe", SamplePath(pf)}

PutNames == {"", Null, "Old CS", "Sample Game"}

PutCache(exePath, name) ==
  /\ calls < MaxPuts
  /\ calls' = calls + 1
  /\ clock' = clock + PutGap
  /\ LET o == putCache(cache, flush, platform, exePath, name, clock + PutGap)
     IN /\ cache' = o.cache
        /\ flush' = o.flush
  /\ lastPut' = [exePath |-> exePath, name |-> name, timer |-> flush]
  /\ step' = Step("put",
                  IF lastPut # None /\ lastPut.exePath = exePath /\ lastPut.name = name
                  THEN "again" ELSE "new",
                  FALSE, FALSE, FALSE, Null, Null)
  /\ sent' = <<>>
  /\ UNCHANGED <<boot, classified, platform, currentActive, lastHeartbeatAt, ticks, flushBuf,
                 disk, precomputedPaths, call, ret, hist>>

NextCache ==
  \/ \E exePath \in PutPaths(platform) : \E name \in PutNames : PutCache(exePath, name)
  \/ FlushFire
  \/ \E ok \in BOOLEAN : MkdirDone(ok)
  \/ \E ok \in BOOLEAN : WriteDone(ok)

SpecCache == InitResolver /\ [][NextCache]_vars

\* the same with a disk that takes every write: the timer fires, and mkdir and
\* writeFile settle
NextCacheOk ==
  \/ \E exePath \in PutPaths(platform) : \E name \in PutNames : PutCache(exePath, name)
  \/ FlushFire
  \/ MkdirDone(TRUE)
  \/ WriteDone(TRUE)

SpecCacheFair ==
  /\ InitResolver
  /\ [][NextCacheOk]_vars
  /\ WF_vars(FlushFire) /\ WF_vars(MkdirDone(TRUE)) /\ WF_vars(WriteDone(TRUE))

(***************************************************************************)
(* classify alone: called with a basename and a path, one call after       *)
(* another.                                                                *)
(***************************************************************************)
\* the keys of the two tables as the source writes them, the same names as
\* pollActive passes them (lowercased), in capitals, and names of no table
ClassifyBases ==
  (DOMAIN KNOWN_EXE_MAP) \cup KNOWN_GEEK_SET \cup {toLowerCase(k) : k \in KNOWN_GEEK_SET}
    \cup {"", "other.exe", "CS2.EXE", "Blender.exe", "chrome.exe"}

\* no path, a path under no library, paths under a game library
ClassifyPaths ==
  {"", "C:\\Program Files\\App\\app.exe", "D:\\SteamApps\\common\\Foo\\foo.exe",
   "C:\\Riot  Games\\x\\x.exe"}

Classify(base, fullPath) ==
  /\ classified' = [base |-> base, fullPath |-> fullPath, cls |-> classify(base, fullPath)]
  /\ sent' = <<>>
  /\ step' = Step("classify", "", TRUE, FALSE, FALSE, Null, Null)
  /\ UNCHANGED <<boot, lastPut, platform, clock, currentActive, lastHeartbeatAt, ticks,
                 cache, flush, flushBuf, disk, precomputedPaths, call, calls, ret, hist>>

NextClassify == \E base \in ClassifyBases : \E fullPath \in ClassifyPaths : Classify(base, fullPath)

SpecClassify == Init /\ [][NextClassify]_vars

(***************************************************************************)
(* Properties.                                                             *)
(***************************************************************************)
\* the number of events of the type among evs
Count(evs, type) == Cardinality({i \in DOMAIN evs : evs[i].type = type})

EndedOf(ca, now) == Event("presence:ended", withEndedAt(ca.payload, now), now)

\* the step ended a tick whose window passed the gates with the signature
\* of the live session
SameSignatureTick ==
  /\ step'.op = "probe"
  /\ step'.sig # Null
  /\ currentActive # None
  /\ step'.sig = currentActive.signature

\* C1: two presence:update events for one signature are never sent without a
\* presence:ended between them, and a tick whose window has the signature of
\* the live session sends no presence:update and calls resolveDisplayName not
\* (no call returns in it and none is left awaiting).
C1_OneUpdatePerSignature ==
  [][/\ ~hist'.dup
     /\ SameSignatureTick =>
          /\ Count(sent', "presence:update") = 0
          /\ ret' = ret
          /\ step'.done]_vars

\* C2: a tick that finds a session live and a qualifying window of another
\* signature sends exactly one presence:ended, with the payload of that
\* session and endedAt, when it takes the branch, and by its end has sent
\* exactly one presence:update and left its own session in currentActive.
C2_SwitchEndsThenStarts ==
  [][/\ (step'.op = "probe" /\ step'.branch = "new" /\ currentActive # None) =>
          /\ sent' # <<>>
          /\ sent'[1] = EndedOf(currentActive, clock)
          /\ Count(sent', "presence:ended") = 1
     /\ (step'.branch = "new" /\ step'.done /\ step'.from # Null) =>
          /\ Count(sent', "presence:update") = 1
          /\ currentActive' # None
          /\ currentActive'.signature = step'.sig
          /\ currentActive'.startedAt = currentActive'.lastSeen]_vars

\* C3: a session whose lastSeen is more than ACTIVE_STALE_MS old is never
\* resumed: a tick whose window passes the gates, whatever its signature,
\* sends no heartbeat for it and does not refresh its lastSeen.
C3_StaleSessionNotResumed ==
  [][(/\ step'.op = "probe"
      /\ step'.sig # Null
      /\ currentActive # None
      /\ clock - currentActive.lastSeen > ACTIVE_STALE_MS)
       => /\ Count(sent', "presence:heartbeat") = 0
          /\ currentActive' # [currentActive EXCEPT !.lastSeen = clock]]_vars

C5_ExcludedNeverActive ==
  [][(step'.op = "probe" /\ step'.excluded) =>
       /\ step'.done
       /\ lastHeartbeatAt' = lastHeartbeatAt
       /\ cache' = cache
       /\ ret' = ret
       /\ IF currentActive # None /\ clock - currentActive.lastSeen > ACTIVE_STALE_MS
          THEN currentActive' = None /\ sent' = << EndedOf(currentActive, clock) >>
          ELSE currentActive' = currentActive /\ sent' = <<>>]_vars

\* a tick on an excluded window (a launcher under a game-library path, an
\* editor of KNOWN_GEEK_SET) has left the live session as it was
C5_ExcludedTickKeepsSession ==
  /\ step.op = "probe"
  /\ step.excluded
  /\ currentActive # None
  /\ clock - currentActive.lastSeen = POLL_ACTIVE_MS
  /\ sent = <<>>

\* C6: at most one pollActive invocation is in progress.
C6_OneTickAtATime == Cardinality({t \in Slots : ticks[t].pc # "idle"}) <= 1

\* C7: a tick whose window probe throws ends the live session when that is
\* stale, as a tick with no window does, and changes nothing else.
C7_ProbeFailureChecksStaleness ==
  [][(step'.op = "probe" /\ step'.branch = "throw") =>
       IF currentActive # None /\ clock - currentActive.lastSeen > ACTIVE_STALE_MS
       THEN currentActive' = None /\ sent' = << EndedOf(currentActive, clock) >>
       ELSE currentActive' = currentActive /\ sent' = <<>>]_vars

\* the names the tiers after the probe would give for the arguments in, each
\* Null when its tier gives none: the window title trimmed and cut, the
\* decoded library folder of the path, the basename without .exe
laterNames(pf, in) ==
  [title |-> IF Len(trim(in.windowTitle)) >= TITLE_MIN
             THEN slice0(trim(in.windowTitle), TITLE_MAX) ELSE Null,
   folder |-> IF in.exePath # "" /\ Truthy(steamFolder(slashes(lower(in.exePath))))
                 /\ decodeURI(steamFolder(slashes(lower(in.exePath)))).ok
              THEN deslug(decodeURI(steamFolder(slashes(lower(in.exePath)))).val)
              ELSE Null,
   bare |-> IF stripExe(resolveEx(pf, in)) # ""
            THEN capitalize(stripExe(resolveEx(pf, in))) ELSE "Unknown App"]

LaterNamesTable == [k \in InputSet |-> laterNames(k[1], k[2])]

\* the first of the candidates that is a name
FirstName(names) ==
  LET I == {i \in DOMAIN names : Truthy(names[i])}
  IN names[CHOOSE i \in I : \A j \in I : i <= j]

\* the name of the first tier that gives one, for the call r = Ret(...)
firstTierName(pf, r, ex, p, later) ==
  FirstName(<< IF ex \in DOMAIN KNOWN_EXE_MAP THEN KNOWN_EXE_MAP[ex] ELSE Null,
               Get(r.c.byExe, ex),
               IF r.in.exePath # "" THEN Get(r.c.byPath, p) ELSE Null,
               IF r.in.exePath # "" THEN Get(r.index, p) ELSE Null,
               IF Truthy(r.meta) /\ (pf = "win32" => Len(r.meta) >= FILEDESC_MIN)
               THEN r.meta ELSE Null,
               later.title, later.folder, later.bare >>)

\* C8: a call of resolveDisplayName that returns gives a name that is
\* neither empty nor blank, and "Unknown App" when its arguments are all empty.
C8_NameNeverBlank ==
  (ret # None /\ ~ret.threw) =>
    /\ trim(ret.name) # ""
    /\ ret.in = In("", "", "") => ret.name = "Unknown App"

\* C9: no call of resolveDisplayName ends with an exception.
C9_ResolveNeverThrows == ret # None => ~ret.threw

\* C10: every call of resolveDisplayName returns the name of the first tier
\* that gives one, in the order known-names table, cache by basename, cache
\* by path, library index, metadata probe, window title, path heuristic,
\* bare fallback.
C10_FirstTierWins ==
  ret # None =>
    /\ ~ret.threw
    /\ ret.name = firstTierName(platform, ret, ExTable[<<platform, ret.in>>],
                                KeysTable[<<platform, ret.in.exePath>>].pLower,
                                LaterNamesTable[<<platform, ret.in>>])

\* the name is a key of the table, whatever the case of either
Listed(b, table) == \E k \in table : toLowerCase(k) = toLowerCase(b)

\* C19: classify gives the result of the first rule that matches, in the
\* order known-executables table (game, 0.9), tools table (geek, 0.8), game
\* library pattern in the path (game, 0.6), otherwise (other, 0.3); every
\* name of the tools table that is not in the known-executables table is
\* classified (geek, 0.8).
C19_FirstRuleWins ==
  classified # None =>
    /\ classified.cls =
         (IF Listed(classified.base, DOMAIN KNOWN_EXE_MAP)
          THEN [category |-> "game", confidence |-> 9]
          ELSE IF Listed(classified.base, KNOWN_GEEK_SET)
          THEN [category |-> "geek", confidence |-> 8]
          ELSE IF hasGameHint(classified.fullPath)
          THEN [category |-> "game", confidence |-> 6]
          ELSE [category |-> "other", confidence |-> 3])
    /\ (classified.base \in KNOWN_GEEK_SET \ DOMAIN KNOWN_EXE_MAP)
         => classified.cls = [category |-> "geek", confidence |-> 8]

\* C20: whenever no tick is in progress, currentActive is a session exactly
\* when a presence:update has been sent since the last presence:ended, and
\* then it is the session of one of those updates.
C20_StateAgreesWithHistory ==
  (\A t \in Slots : ticks[t].pc = "idle") =>
    /\ currentActive # None <=> hist.updSigs # {}
    /\ currentActive # None => SigOf(currentActive.payload) \in hist.updSigs

\* the tiers whose result resolveDisplayName writes to the cache
WrittenTiers == {"index", "meta", "title", "path", "fallback"}

\* the cache c holds the name under the basename ex and under the path p
HeldUnderBoth(c, ex, p, name) == Get(c.byExe, ex) = name /\ Get(c.byPath, p) = name

\* the step ended a call of resolveDisplayName with a name
ReturnsName == step'.op = "resolve" /\ step'.done /\ ~step'.threw

\* the lowercased path of the call's arguments, the process name without one
pathKey(in, ex) == IF in.exePath # "" THEN lower(in.exePath) ELSE ex

SentReady == Len(sent) = 1 /\ sent[1].type = "presence:ready"

ReadyInOrder ==
  /\ boot.ready = (IF boot.pc = "run" THEN 1 ELSE 0)
  /\ (step.op = "warmup" /\ step.branch = "ready") => SentReady
  /\ \A i \in 1..Len(sent) :
       IF sent[i].type = "presence:ready"
       THEN step.op = "warmup" /\ step.branch = "ready" /\ SentReady
       ELSE boot.ready = 1 /\ step.op # "warmup"
  /\ boot.pc # "run" => hist = NoHist /\ currentActive = None

\* C16: presence:ready is sent exactly once, by the step in which warmup (the
\* cache load and both scans) ends, before any presence:update, heartbeat or
\* ended, and it is sent on every machine, those whose cache file and
\* libraries cannot be read included
C16_ReadyOnceAfterWarmup == []ReadyInOrder /\ <>(boot.ready = 1)

\* ready was sent on a win32 machine where the cache file does not parse and
\* the scans found nothing
C16_ReadyThoughAllFailed ==
  /\ platform = "win32"
  /\ step.op = "warmup" /\ step.branch = "ready"
  /\ SentReady
  /\ disk = Unparseable /\ cache = EmptyCache
  /\ precomputedPaths = EmptyMap

(***************************************************************************)
(* The library of each platform as a list of its complete manifests in     *)
(* scan order: the files and directories the scan has to read to index     *)
(* the manifest, the key and the name it is indexed under.                 *)
(***************************************************************************)
Manifest(needs, key, name) == [needs |-> needs, key |-> key, name |-> name]

CompleteManifests(pf) ==
  IF pf = "win32"
  THEN << Manifest({"C:\\Program Files (x86)\\Steam\\steamapps\\libraryfolders.vdf"},
                   "c:\\program files (x86)\\steam\\steamapps\\common\\cs2\\bin\\cs2.exe",
                   "CS Two"),
          Manifest({"C:\\Program Files (x86)\\Steam\\steamapps\\libraryfolders.vdf",
                    "D:\\steamapps", "D:\\steamapps\\appmanifest_20.acf",
                    "D:\\steamapps\\common\\Foo"},
                   "d:\\steamapps\\common\\foo\\foo.exe", "Foo Game"),
          Manifest({"C:\\Program Files (x86)\\Steam\\steamapps\\libraryfolders.vdf",
                    "D:\\steamapps", "D:\\steamapps\\appmanifest_21.acf"},
                   "d:\\steamapps\\common\\foo\\foo.exe", "Foo Deluxe"),
          Manifest({"C:\\ProgramData\\Epic\\EpicGamesLauncher\\Data\\Manifests",
                    "C:\\ProgramData\\Epic\\EpicGamesLauncher\\Data\\Manifests\\a.item"},
                   "d:\\steamapps\\common\\foo\\foo.exe", "Epic Foo"),
          Manifest({"C:\\ProgramData\\Epic\\EpicGamesLauncher\\Data\\Manifests",
                    "C:\\ProgramData\\Epic\\EpicGamesLauncher\\Data\\Manifests\\B.ITEM"},
                   "e:\\epic\\bar\\bin\\bar.exe", "Bar") >>
  ELSE IF pf = "darwin"
  THEN << Manifest({"/Users/u/Library/Application Support/Steam/steamapps/libraryfolders.vdf",
                    "/Users/u/Library/Application Support/Steam/steamapps/appmanifest_30.acf",
                    "/Users/u/Library/Application Support/Steam/steamapps/common/MacGame"},
                   "/users/u/library/application support/steam/steamapps/common/macgame/macgame.app",
                   "Mac Game") >>
  ELSE <<>>

\* the index of the manifests that need nothing of broken, a later one
\* replacing an earlier one of the same key
ExpectedIndex(pf, broken) ==
  LET all == CompleteManifests(pf)
      read == {i \in 1..Len(all) : all[i].needs \cap broken = {}}
      last(k) == CHOOSE i \in read : all[i].key = k /\ \A j \in read : all[j].key = k => j <= i
  IN [k \in {all[i].key : i \in read} |-> all[last(k)].name]

\* C17: whatever part of the libraries cannot be read or parsed, the scans
\* end and the index holds exactly the readable complete manifests under
\* their lowercased paths, a later manifest replacing an earlier one of the
\* same path and Epic's replacing Steam's
C17_IndexOfReadableManifests ==
  [][(step'.op = "warmup" /\ step'.branch = "ready")
       => precomputedPaths' = ExpectedIndex(platform, boot.fs.broken)]_vars

\* warmup ended on a win32 machine where the second manifest of foo.exe and
\* both Epic manifests could not be read: the index holds the other two
C17_PartialLibraryIndexed ==
  /\ platform = "win32"
  /\ step.op = "warmup" /\ step.branch = "ready"
  /\ precomputedPaths =
       ("c:\\program files (x86)\\steam\\steamapps\\common\\cs2\\bin\\cs2.exe" :> "CS Two")
       @@ ("d:\\steamapps\\common\\foo\\foo.exe" :> "Foo Game")

\* the step was a flush whose mkdir or writeFile failed
FlushFailed == step'.op = "flush" /\ step'.branch \in {"mkdirFailed", "writeFailed"}

\* C18: a flush whose mkdir or writeFile fails leaves the cache and the file
\* as they were, raises nothing in any tick or call, and clears the timer, so
\* that the next change of the cache sets it again; loading a missing or
\* unparseable file leaves the cache empty and warmup goes on
C18_CacheIoFailuresTolerated ==
  [][/\ FlushFailed =>
          /\ cache' = cache /\ disk' = disk
          /\ ticks' = ticks /\ call' = call /\ ~step'.threw
          /\ flush' = "none"
     /\ (cache' # cache /\ step'.op # "warmup" /\ flush = "none") => flush' = "pending"
     /\ (step'.op = "warmup" /\ step'.branch = "load" /\ disk \in {None, Unparseable}) =>
          /\ cache' = EmptyCache
          /\ boot'.pc = "steam"]_vars

\* the cache file did not parse, the cache was filled by a tick and its flush
\* failed at writeFile: the cache is kept and the timer is clear
C18_WriteFailedAfterBadLoad ==
  /\ step.op = "flush" /\ step.branch = "writeFailed"
  /\ disk = Unparseable
  /\ cache # EmptyCache
  /\ flush = "none"

\* C12: a call of putCache with the arguments of the call before it leaves
\* byExe, byPath and updatedAt as the first call left them and does not
\* touch the flush timer, so the two calls cause at most one write
C12_SecondPutChangesNothing ==
  [][(step'.op = "put" /\ step'.branch = "again") => (cache' = cache /\ flush' = flush)]_vars

\* a name was put under a path twice, Date.now() moving on in between: the
\* cache holds it under both keys with the time of the first call, and one
\* flush is pending
C12_PutTwice ==
  /\ step.op = "put" /\ step.branch = "again"
  /\ Truthy(lastPut.name) /\ lastPut.exePath # ""
  /\ Get(cache.byExe, KeysTable[<<platform, lastPut.exePath>>].ex) = lastPut.name
  /\ Get(cache.byPath, lower(lastPut.exePath)) = lastPut.name
  /\ cache.updatedAt = clock - PutGap
  /\ flush = "pending"

\* C13: a change of the cache that finds the flush timer set leaves the timer
\* as it is (no second flush), and the one flush serializes the cache as it
\* is when writeFile is called and writes that, so it holds every change made
\* while the timer was pending
C13_OneFlushOfWholeCache ==
  [][/\ (step'.op = "put" /\ flush # "none") => flush' = flush
     /\ (step'.op = "flush" /\ step'.branch = "fire") => (flush = "pending" /\ flush' = "mkdir")
     /\ (step'.op = "flush" /\ step'.branch = "mkdir") => flushBuf' = cache
     /\ (step'.op = "flush" /\ step'.branch = "write") => (disk' = flushBuf /\ flush' = "none")
     /\ (flush = "pending" /\ flush' = "write") => FALSE]_vars

\* the cache was changed by a call that found the timer pending; the timer is
\* still the one pending flush
C13_ChangedWhilePending ==
  /\ step.op = "put"
  /\ lastPut.timer = "pending"
  /\ cache.updatedAt = clock
  /\ flush = "pending"

\* C14: every change of the cache reaches the file: when the calls of putCache
\* have stopped and every write succeeds, the file comes to hold the cache
C14_EveryMutationFlushed == (flush # "none") ~> (disk = cache)

\* C15: on win32 a tick whose resolveDisplayName awaits the metadata probe
\* goes on: the call returns a name of a later tier and the tick ends,
\* whether or not the spawned process ever closes or fails
C15_TickOutlivesHungProbe ==
  \A t \in Slots :
    (platform = "win32" /\ ticks[t].pc = "meta") ~> (ticks[t].pc # "meta")

\* the step sent a presence:ended
SendsEnded == \E i \in 1..Len(sent') : sent'[i].type = "presence:ended"

\* the step was a tick that found no window, an excluded basename or a
\* category that does not qualify
NonQualifyingTick ==
  step'.op = "probe" /\ step'.branch \in {"nowindow", "excluded", "other"}

\* C21: presence:ended is sent only by a tick whose qualifying window has
\* another signature than the live session, or by a non-qualifying tick that
\* finds now - lastSeen > ACTIVE_STALE_MS; a non-qualifying tick within the
\* threshold leaves the session as it is, and a tick that sees the live
\* session's signature again sends no ended and sets lastSeen to its now
C21_EndedOnlyWhenReplacedOrStale ==
  [][/\ SendsEnded =>
          /\ currentActive # None
          /\ \/ /\ step'.op = "probe" /\ step'.branch = "new"
                /\ step'.sig # Null /\ step'.sig # currentActive.signature
             \/ /\ NonQualifyingTick
                /\ clock - currentActive.lastSeen > ACTIVE_STALE_MS
     /\ (NonQualifyingTick /\ currentActive # None
           /\ clock - currentActive.lastSeen <= ACTIVE_STALE_MS) =>
          (~SendsEnded /\ currentActive' = currentActive)
     /\ (step'.op = "probe" /\ step'.branch = "same") =>
          /\ ~SendsEnded
          /\ currentActive' = [currentActive EXCEPT !.lastSeen = clock]]_vars

\* a tick on an excluded window found the session last seen exactly
\* ACTIVE_STALE_MS ago and left it live
C21_SessionSurvivesAtThreshold ==
  /\ step.op = "probe" /\ step.branch = "excluded"
  /\ currentActive # None
  /\ clock - currentActive.lastSeen = ACTIVE_STALE_MS
  /\ sent = <<>>

\* every name of the map old is still in new under the same key
KeptEntries(old, new) == \A k \in DOMAIN old : Truthy(old[k]) => Get(new, k) = old[k]

\* the step ended a call of resolveDisplayName, made by a tick or directly,
\* with a name
CallReturned ==
  step'.done /\ ~step'.threw /\ (step'.op = "resolve" \/ step'.branch = "new")

\* the name the cache c holds for the arguments in of a call whose basename
\* (or process name) is ex: under ex, else under the lowercased path; Null
\* when it holds none
CachedName(c, in, ex) ==
  IF ex # "" /\ Truthy(Get(c.byExe, ex)) THEN Get(c.byExe, ex)
  ELSE IF in.exePath # "" /\ Truthy(Get(c.byPath, lower(in.exePath)))
  THEN Get(c.byPath, lower(in.exePath))
  ELSE Null

\* C22: a name in the cache stays: no step replaces a cached name by another
\* one, and a call for a basename or path the cache held a name for when the
\* call was made returns that name, whatever its window title (names of the
\* known-names table aside, which come before the cache)
C22_NamesAreSticky ==
  [][/\ KeptEntries(cache.byExe, cache'.byExe)
     /\ KeptEntries(cache.byPath, cache'.byPath)
     /\ (CallReturned /\ ret'.tier # "known"
           /\ CachedName(ret'.c, ret'.in, ExTable[<<platform, ret'.in>>]) # Null) =>
          ret'.name = CachedName(ret'.c, ret'.in, ExTable[<<platform, ret'.in>>])]_vars


====
